---- MODULE Spec2Model ----
(***************************************************************************)
(* Model of the Cortex inference core (android/app/src/main/cpp):          *)
(* InferenceEngine (inference_engine.cpp), the platform channel            *)
(* (platform_channel.cpp) and MemoryManager (memory_manager.cpp).          *)
(*                                                                         *)
(* The llama.cpp backend is an external collaborator.  Its sequence state  *)
(* is modelled as a set of cells [pos, tok]; llama_decode refuses a batch  *)
(* that does not fit the window or whose explicit positions do not         *)
(* continue the stored sequence, and may fail on its own (fault budget).   *)
(*                                                                         *)
(* The window geometry is scaled down so that the state space is finite   *)
(* and small: the source's context_length 256, keep 64, margins 32 and 16  *)
(* and prompt batch 32 become ContextLength, KEEP_TOKENS, START_MARGIN,    *)
(* BATCH_MARGIN and PromptBatch below.  The order relations the code       *)
(* relies on are kept (BATCH_MARGIN < START_MARGIN < KEEP_TOKENS,          *)
(* KEEP_TOKENS + START_MARGIN < ContextLength).                            *)
(***************************************************************************)
EXTENDS Integers, Sequences, FiniteSets, TLC

----------------------------------------------------------------------------
(* Bounds of the model *)

ContextLength == 8      \* config.context_length (256 in createMobileConfig)
MaxTokensCap == 2       \* largest config.max_tokens a caller passes
MaxFaults == 1          \* backend failures (tokenize, decode, seq_rm) injected per run
MaxPromptLen == 9       \* longest prompt, in tokens (one more than the window)

(* Program constants, scaled with the window *)

KEEP_TOKENS == 3        \* shiftContext(64)
START_MARGIN == 2       \* context_length - n_past_ - 32
BATCH_MARGIN == 1       \* context_length - 16
PromptBatch == 4        \* config.batch_size = 32
BATCH_SIZE == 2         \* InferenceEngine::BATCH_SIZE = 4

----------------------------------------------------------------------------
(* Tokens and text *)

PromptLens == {2, MaxPromptLen}
MaxTokensSet == {MaxTokensCap}
SampleSet == {"a", "b", "eos"}

\* llama_tokenize with add_special = true: a BOS marker, then the body.
Tokenize(len) == [i \in 1..len |-> IF i = 1 THEN "bos" ELSE "p"]

\* llama_vocab_is_eog
IsEog(tok) == tok = "eos"

\* tokenToString: llama_token_to_piece; a partial glyph has an empty piece.
tokenToString(tok) == IF tok = "b" THEN <<>> ELSE <<tok>>

Min(a, b) == IF a < b THEN a ELSE b

----------------------------------------------------------------------------
(* The backend's sequence state (llama_memory_*, llama_decode) *)

Positions(kv) == {c.pos : c \in kv}

\* llama_memory_seq_pos_max; -1 when the sequence is empty
MaxPos(kv) == IF kv = {} THEN -1
              ELSE CHOOSE p \in Positions(kv) : \A q \in Positions(kv) : q <= p

\* llama_memory_seq_rm(mem, 0, p0, p1)
SeqRm(kv, p0, p1) == {c \in kv : ~(c.pos >= p0 /\ c.pos < p1)}

\* llama_memory_seq_add(mem, 0, p0, p1, delta)
SeqAdd(kv, p0, p1, delta) ==
    {IF c.pos >= p0 /\ c.pos < p1 THEN [pos |-> c.pos + delta, tok |-> c.tok] ELSE c
       : c \in kv}

\* llama_decode accepts a batch of n tokens starting at position start
DecodeAccepts(kv, n, start) ==
    /\ Cardinality(kv) + n <= ContextLength
    /\ (kv = {} \/ start = MaxPos(kv) + 1)

DecodeCells(toks, first, n, start) ==
    {[pos |-> start + j, tok |-> toks[first + j]] : j \in 0..(n - 1)}

\* InferenceEngine::evaluateTokens(tokens, n_past, n_tokens).  failAt names the
\* llama_decode call (1, 2, ...) the backend fails on its own, 0 for none.
\* The result is [ok, kv]: the cells of the batches decoded before a failure stay.
RECURSIVE EvalBatches(_, _, _, _, _, _)
EvalBatches(kv, toks, n_past, n_tokens, i, failAt) ==
    IF i >= n_tokens THEN [ok |-> TRUE, kv |-> kv]
    ELSE LET n_eval == Min(PromptBatch, n_tokens - i)
             call == (i \div PromptBatch) + 1
         IN  IF call = failAt \/ ~DecodeAccepts(kv, n_eval, n_past + i)
             THEN [ok |-> FALSE, kv |-> kv]
             ELSE EvalBatches(kv \cup DecodeCells(toks, i + 1, n_eval, n_past + i),
                              toks, n_past, n_tokens, i + PromptBatch, failAt)

evaluateTokens(kv, toks, n_past, n_tokens, failAt) ==
    IF n_tokens = 1
    THEN \* llama_batch_get_one: the position is the backend's, not n_past
         IF failAt = 1 \/ ~DecodeAccepts(kv, 1, MaxPos(kv) + 1)
         THEN [ok |-> FALSE, kv |-> kv]
         ELSE [ok |-> TRUE, kv |-> kv \cup DecodeCells(toks, 1, 1, MaxPos(kv) + 1)]
    ELSE EvalBatches(kv, toks, n_past, n_tokens, 0, failAt)

NumDecodes(n_tokens) == (n_tokens + PromptBatch - 1) \div PromptBatch

----------------------------------------------------------------------------
(* State *)

VARIABLES
    model_loaded,         \* model_ != nullptr && ctx_ != nullptr
    is_generating_,       \* std::atomic<bool>
    stop_requested_,      \* std::atomic<bool>
    generation_complete_, \* std::atomic<bool>
    tokens_,              \* std::vector<llama_token>: the history
    n_past_,              \* committed position counter
    kv,                   \* the backend's cells for sequence 0
    generated_tokens,     \* stats_.generated_tokens
    prompt_tokens,        \* stats_.prompt_tokens
    max_tokens,           \* current_config_.max_tokens
    caller_pc,            \* where the caller's thread is: "idle" or blocked in a call
    pending,              \* arguments of the call the caller is blocked in
    aborted,              \* the process was terminated or crashed
    gen_pc, gen_token,    \* generation_thread_: position and its local new_token
    proc_pc,              \* processor_thread_: position
    batch_buffer, batch_count, \* processorThreadFunc locals
    token_queue_,         \* std::queue<llama_token>
    output_buffer_,       \* std::string (a sequence of pieces)
    token_callback_,      \* the registered push callback, "none" when empty
    cb_running,           \* the callback the Processor is in, under callback_mutex_
    fault_budget,         \* backend failures that may still be injected
    last_call,            \* the last load or start call that returned, and its result
    hist,                 \* observation record of the current session (not program state)
    mem_available,        \* MemoryManager::getAvailableMemory(), in MiB
    mem_answers,          \* what canAllocate answered at this snapshot, by request size
    mem_recommended,      \* the last getRecommendedContextSize() call: input (KiB), result
    model_memory_,        \* MemoryManager::model_memory_, in MiB
    host_load,            \* the last cortex::loadModel() call and what it did (observation)
    callback_log          \* the current or last generateWithCallback() call (observation)

engineVars == <<model_loaded, is_generating_, stop_requested_, tokens_, n_past_, kv,
                generated_tokens, prompt_tokens, max_tokens>>
threadVars == <<generation_complete_, gen_pc, gen_token, proc_pc, batch_buffer,
                batch_count, token_queue_, output_buffer_, token_callback_, cb_running>>
hostVars == <<model_memory_, host_load, callback_log>>
memVars == <<mem_available, mem_answers, mem_recommended, hostVars>>
vars == <<engineVars, threadVars, caller_pc, pending, aborted, fault_budget, last_call, hist,
          memVars>>

\* The engine fields the synchronous operations read and write, as one record.
Eng == [model_loaded |-> model_loaded, is_generating_ |-> is_generating_,
        stop_requested_ |-> stop_requested_, tokens_ |-> tokens_, n_past_ |-> n_past_,
        kv |-> kv, generated_tokens |-> generated_tokens,
        prompt_tokens |-> prompt_tokens, max_tokens |-> max_tokens]

SetEng(e) ==
    /\ model_loaded' = e.model_loaded
    /\ is_generating_' = e.is_generating_
    /\ stop_requested_' = e.stop_requested_
    /\ tokens_' = e.tokens_
    /\ n_past_' = e.n_past_
    /\ kv' = e.kv
    /\ generated_tokens' = e.generated_tokens
    /\ prompt_tokens' = e.prompt_tokens
    /\ max_tokens' = e.max_tokens

LastK(s, k) == IF Len(s) > k THEN SubSeq(s, Len(s) - k + 1, Len(s)) ELSE s

----------------------------------------------------------------------------
(* Synchronous operations of InferenceEngine, as functions of the engine record *)

\* shiftContext(keep_tokens), the part after the early return, under mutex_.
\* rmOk: whether llama_memory_seq_rm removed the range; its result is not read.
shiftContextLocked(e, keep, rmOk) ==
    LET shift_amount == e.n_past_ - keep
        removed == IF rmOk THEN SeqRm(e.kv, 0, shift_amount) ELSE e.kv
    IN  [e EXCEPT !.kv = SeqAdd(removed, shift_amount, e.n_past_, -shift_amount),
                  !.n_past_ = keep,
                  !.tokens_ = LastK(e.tokens_, keep)]

\* A shiftContext(keep_tokens) that always returned early (not the program's)
shiftContext_NoOp(e, keep, rmOk) == e

\* shiftContext(keep_tokens) called by a thread that does not hold mutex_
shiftContext(e, keep, rmOk) ==
    IF e.n_past_ <= keep THEN e ELSE shiftContextLocked(e, keep, rmOk)

\* clearCache()
clearCache(e) == [e EXCEPT !.kv = {}, !.tokens_ = <<>>, !.n_past_ = 0]

\* A stopGeneration() that only raised the flag (not the program's)
stopGeneration_FlagOnly(e) == [e EXCEPT !.stop_requested_ = TRUE]

\* stopGeneration()
stopGeneration(e) == [e EXCEPT !.stop_requested_ = TRUE, !.is_generating_ = FALSE]

\* A getNextToken that did not look at max_tokens before sampling (not the
\* program's)
getNextToken_NoTokenLimit(e, sample, failAt) ==
    LET off == [e EXCEPT !.is_generating_ = FALSE]
        none(s, d) == [e |-> off, text |-> <<>>, sampled |-> s, decoded |-> d, pos |-> -1]
    IN  IF ~e.is_generating_ \/ e.stop_requested_ THEN none(FALSE, FALSE)
        ELSE IF e.n_past_ >= ContextLength - 1 THEN none(FALSE, FALSE)
        ELSE IF IsEog(sample) THEN none(TRUE, FALSE)
        ELSE LET ev == evaluateTokens(e.kv, <<sample>>, e.n_past_, 1, failAt)
                 pushed == [e EXCEPT !.tokens_ = Append(@, sample), !.kv = ev.kv]
             IN  IF ~ev.ok
                 THEN [e |-> [pushed EXCEPT !.is_generating_ = FALSE], text |-> <<>>,
                       sampled |-> TRUE, decoded |-> TRUE, pos |-> -1]
                 ELSE [e |-> [pushed EXCEPT !.n_past_ = @ + 1,
                                            !.generated_tokens = @ + 1],
                       text |-> tokenToString(sample),
                       sampled |-> TRUE, decoded |-> TRUE, pos |-> MaxPos(e.kv) + 1]

\* A getNextToken that pushed the sampled token before looking whether it is
\* an end-of-sequence token (not the program's)
getNextToken_KeepsEog(e, sample, failAt) ==
    LET off == [e EXCEPT !.is_generating_ = FALSE]
        none(s, d) == [e |-> off, text |-> <<>>, sampled |-> s, decoded |-> d, pos |-> -1]
    IN  IF ~e.is_generating_ \/ e.stop_requested_ THEN none(FALSE, FALSE)
        ELSE IF e.n_past_ >= ContextLength - 1 THEN none(FALSE, FALSE)
        ELSE IF e.generated_tokens >= e.max_tokens THEN none(FALSE, FALSE)
        ELSE IF IsEog(sample)
        THEN [e |-> [off EXCEPT !.tokens_ = Append(@, sample)], text |-> <<>>,
              sampled |-> TRUE, decoded |-> FALSE, pos |-> -1]
        ELSE LET ev == evaluateTokens(e.kv, <<sample>>, e.n_past_, 1, failAt)
                 pushed == [e EXCEPT !.tokens_ = Append(@, sample), !.kv = ev.kv]
             IN  IF ~ev.ok
                 THEN [e |-> [pushed EXCEPT !.is_generating_ = FALSE], text |-> <<>>,
                       sampled |-> TRUE, decoded |-> TRUE, pos |-> -1]
                 ELSE [e |-> [pushed EXCEPT !.n_past_ = @ + 1,
                                            !.generated_tokens = @ + 1],
                       text |-> tokenToString(sample),
                       sampled |-> TRUE, decoded |-> TRUE, pos |-> MaxPos(e.kv) + 1]

\* getNextToken(): sample is what llama_sampler_sample returns if it is called.
\* Result: the engine, the returned text, and whether the sampler and
\* llama_decode were called.
getNextToken(e, sample, failAt) ==
    LET off == [e EXCEPT !.is_generating_ = FALSE]
        none(s, d) == [e |-> off, text |-> <<>>, sampled |-> s, decoded |-> d, pos |-> -1]
    IN  IF ~e.is_generating_ \/ e.stop_requested_ THEN none(FALSE, FALSE)
        ELSE IF e.n_past_ >= ContextLength - 1 THEN none(FALSE, FALSE)
        ELSE IF e.generated_tokens >= e.max_tokens THEN none(FALSE, FALSE)
        ELSE IF IsEog(sample) THEN none(TRUE, FALSE)
        ELSE LET ev == evaluateTokens(e.kv, <<sample>>, e.n_past_, 1, failAt)
                 pushed == [e EXCEPT !.tokens_ = Append(@, sample), !.kv = ev.kv]
             IN  IF ~ev.ok
                 THEN [e |-> [pushed EXCEPT !.is_generating_ = FALSE], text |-> <<>>,
                       sampled |-> TRUE, decoded |-> TRUE, pos |-> -1]
                 ELSE [e |-> [pushed EXCEPT !.n_past_ = @ + 1,
                                            !.generated_tokens = @ + 1],
                       text |-> tokenToString(sample),
                       sampled |-> TRUE, decoded |-> TRUE, pos |-> MaxPos(e.kv) + 1]

\* getNextTokens(count): samples[i], failStep and refuseStep are the backend's
\* answers in iteration i (failStep, refuseStep: the iteration whose decode
\* fails / whose seq_rm is refused, 0 for none).
\* The result also tells how many shifts were made and why the loop was left:
\* "count" (loop condition), "exhausted" (n_past_ at context_length - 1),
\* "evalfail" (evaluateTokens failed) or "end" (max_tokens or end-of-sequence).
RECURSIVE getNextTokensLoop(_, _, _, _, _, _, _, _)
getNextTokensLoop(e, result, shifts, i, count, samples, failStep, refuseStep) ==
    IF ~(i < count /\ e.is_generating_ /\ ~e.stop_requested_)
    THEN [e |-> e, result |-> result, shifts |-> shifts, why |-> "count"]
    ELSE LET need == e.n_past_ >= ContextLength - BATCH_MARGIN
             e1 == IF need THEN shiftContext(e, KEEP_TOKENS, refuseStep # i + 1) ELSE e
             did == IF need /\ e.n_past_ > KEEP_TOKENS THEN 1 ELSE 0
             r == getNextToken(e1, samples[i + 1], IF failStep = i + 1 THEN 1 ELSE 0)
         IN  IF r.text = <<>> /\ ~r.e.is_generating_
             THEN [e |-> r.e, result |-> result, shifts |-> shifts + did,
                   why |-> IF r.decoded THEN "evalfail"
                           ELSE IF e1.n_past_ >= ContextLength - 1 THEN "exhausted"
                           ELSE "end"]
             ELSE getNextTokensLoop(r.e, Append(result, r.text), shifts + did, i + 1,
                                    count, samples, failStep, refuseStep)

getNextTokens(e, count, samples, failStep, refuseStep) ==
    getNextTokensLoop(e, <<>>, 0, 0, count, samples, failStep, refuseStep)

\* A startInference that evaluated the prompt without clearing the backend's
\* memory first (not the program's)
startInference_NoClear(e, len, mt, tokOk, failAt) ==
    LET ev == evaluateTokens(e.kv, Tokenize(len), 0, len, failAt)
        st == [e EXCEPT !.stop_requested_ = FALSE, !.tokens_ = Tokenize(len),
                        !.kv = ev.kv, !.max_tokens = mt, !.prompt_tokens = len,
                        !.generated_tokens = 0]
    IN  IF tokOk /\ ev.ok
        THEN [e |-> [st EXCEPT !.n_past_ = len, !.is_generating_ = TRUE], ret |-> TRUE,
              evalFailed |-> FALSE]
        ELSE [e |-> [st EXCEPT !.n_past_ = 0, !.is_generating_ = FALSE], ret |-> FALSE,
              evalFailed |-> tokOk]

\* A startInference that left stats_.generated_tokens as it was (not the
\* program's)
startInference_KeepsCount(e, len, mt, tokOk, failAt) ==
    LET reset == [e EXCEPT !.is_generating_ = FALSE, !.stop_requested_ = FALSE,
                           !.tokens_ = <<>>, !.n_past_ = 0, !.max_tokens = mt]
    IN  IF ~tokOk
        THEN [e |-> [reset EXCEPT !.tokens_ = [i \in 1..len |-> "junk"]], ret |-> FALSE,
              evalFailed |-> FALSE]
        ELSE LET toks == Tokenize(len)
                 ev == evaluateTokens({}, toks, 0, len, failAt)
                 st == [reset EXCEPT !.tokens_ = toks, !.kv = ev.kv,
                                     !.prompt_tokens = len]
             IN  IF ~ev.ok THEN [e |-> st, ret |-> FALSE, evalFailed |-> TRUE]
                 ELSE [e |-> [st EXCEPT !.n_past_ = len, !.is_generating_ = TRUE],
                       ret |-> TRUE, evalFailed |-> FALSE]

\* startInference(prompt, config) on a loaded model, from the forced stop on.
\* len: the prompt's token count; tokOk: whether llama_tokenize succeeds.
startInference(e, len, mt, tokOk, failAt) ==
    LET reset == [e EXCEPT !.is_generating_ = FALSE, !.stop_requested_ = FALSE,
                           !.tokens_ = <<>>, !.n_past_ = 0, !.max_tokens = mt]
    IN  IF ~tokOk
        THEN \* tokens_ was resized for the retry and is left as it is
             [e |-> [reset EXCEPT !.tokens_ = [i \in 1..len |-> "junk"]], ret |-> FALSE,
              evalFailed |-> FALSE]
        ELSE LET toks == Tokenize(len)
                 ev == evaluateTokens({}, toks, 0, len, failAt)
                 st == [reset EXCEPT !.tokens_ = toks, !.kv = ev.kv,
                                     !.prompt_tokens = len, !.generated_tokens = 0]
             IN  IF ~ev.ok THEN [e |-> st, ret |-> FALSE, evalFailed |-> TRUE]
                 ELSE [e |-> [st EXCEPT !.n_past_ = len, !.is_generating_ = TRUE],
                       ret |-> TRUE, evalFailed |-> FALSE]

\* A setup that appended the increment to tokens_ before evaluating it (not
\* the program's)
incrementalSetup_AppendFirst(e, len, mt, tokOk, failAt) ==
    LET cfg == [e EXCEPT !.max_tokens = mt]
    IN  IF ~tokOk THEN [e |-> cfg, how |-> "fail", shifted |-> FALSE, evalFailed |-> FALSE]
        ELSE LET new_tokens == Tokenize(len)
                 available_space == ContextLength - e.n_past_ - START_MARGIN
                 wants == len > available_space
             IN  IF wants /\ e.n_past_ > KEEP_TOKENS
                 THEN [e |-> cfg, how |-> "deadlock", shifted |-> FALSE,
                       evalFailed |-> FALSE]
                 ELSE LET st == [cfg EXCEPT !.prompt_tokens = len,
                                            !.generated_tokens = 0,
                                            !.tokens_ = @ \o new_tokens]
                          ev == evaluateTokens(e.kv, new_tokens, e.n_past_, len, failAt)
                      IN  IF ~ev.ok
                          THEN [e |-> [st EXCEPT !.kv = ev.kv], how |-> "fail",
                                shifted |-> FALSE, evalFailed |-> TRUE]
                          ELSE [e |-> [st EXCEPT !.kv = ev.kv,
                                                 !.n_past_ = @ + len],
                                how |-> "ok", shifted |-> FALSE, evalFailed |-> FALSE]

\* The setup shared by startInferenceIncremental and startInferenceThreaded,
\* run under mutex_: tokenize, shift if the increment does not fit, evaluate,
\* append.  how = "deadlock": shiftContext locks mutex_, which this thread holds.
incrementalSetup(e, len, mt, tokOk, failAt) ==
    LET cfg == [e EXCEPT !.max_tokens = mt]
    IN  IF ~tokOk THEN [e |-> cfg, how |-> "fail", shifted |-> FALSE, evalFailed |-> FALSE]
        ELSE LET new_tokens == Tokenize(len)
                 available_space == ContextLength - e.n_past_ - START_MARGIN
                 wants == len > available_space
             IN  IF wants /\ e.n_past_ > KEEP_TOKENS
                 THEN [e |-> cfg, how |-> "deadlock", shifted |-> FALSE,
                       evalFailed |-> FALSE]
                 ELSE LET st == [cfg EXCEPT !.prompt_tokens = len,
                                            !.generated_tokens = 0]
                          ev == evaluateTokens(e.kv, new_tokens, e.n_past_, len, failAt)
                      IN  IF ~ev.ok
                          THEN [e |-> [st EXCEPT !.kv = ev.kv], how |-> "fail",
                                shifted |-> FALSE, evalFailed |-> TRUE]
                          ELSE [e |-> [st EXCEPT !.kv = ev.kv,
                                                 !.tokens_ = @ \o new_tokens,
                                                 !.n_past_ = @ + len],
                                how |-> "ok", shifted |-> FALSE, evalFailed |-> FALSE]

\* startInferenceIncremental(prompt, config) on a loaded model
startInferenceIncremental(e, len, mt, tokOk, failAt) ==
    LET forced == [e EXCEPT !.is_generating_ = FALSE, !.stop_requested_ = FALSE]
        r == incrementalSetup(forced, len, mt, tokOk, failAt)
    IN  IF r.how = "ok"
        THEN [e |-> [r.e EXCEPT !.is_generating_ = TRUE], how |-> "ok",
              evalFailed |-> FALSE]
        ELSE [e |-> r.e, how |-> r.how, evalFailed |-> r.evalFailed]

----------------------------------------------------------------------------
(* Observation of the current session (kept beside the program state) *)

NewHist(mode, before, cb) ==
    [mode |-> mode,          \* "none", "sync" or "threaded": the last start* that set up
     before |-> before,      \* the engine when startInferenceThreaded was called,
     len |-> 0, mt |-> 0,    \* and the call's prompt length and max_tokens
     enq |-> <<>>,           \* tokens the Producer pushed to token_queue_
     deq |-> <<>>,           \* tokens the Processor popped from token_queue_
     flushed |-> <<>>,       \* text the Processor appended to output_buffer_
     drained |-> <<>>,       \* text popTokenFromQueue returned
     cb_out |-> <<>>,        \* text passed to the push callback
     cb_all |-> cb,          \* a push callback was registered all along
     sampled |-> <<>>,       \* what the Producer's sampler returned, in order
     stopped |-> FALSE,      \* stopGeneration / stopThreads was called
     failed |-> FALSE,       \* a llama_decode of a generated token failed
     lost |-> FALSE,         \* a queued token was discarded with no stop requested
     after_stop |-> -1]      \* tokens the running Producer pushed since stopGeneration()
                             \* was called; -1 if it was not (kept with the thread)

\* The record of a new synchronous session; the Producer of an earlier
\* threaded session, if it still runs, keeps its count
SessionHist(mode, before, cb) ==
    [NewHist(mode, before, cb) EXCEPT !.after_stop = hist.after_stop]

\* The Producer is inside its loop: between the loop condition and the
\* increment that ends a generation step
ProducerRuns == gen_pc \in {"check", "push", "record", "eval", "count"}

NoEngine == [model_loaded |-> FALSE]

\* The caller holds mutex_ while blocked inside loadModel -> unloadModel, or on
\* its own second lock.
CallerHoldsMutex == caller_pc \in {"reload", "deadlock"}

CallerIdle == caller_pc = "idle" /\ ~aborted

\* What is observed of a generateWithCallback() call: whether it is in its
\* loop, whether a callback was passed, the callback invocations in order,
\* whether the callback answered false, whether getNextToken reported the end
NoLog == [active |-> FALSE, cb |-> FALSE, calls |-> <<>>, refused |-> FALSE,
          ended |-> FALSE]

Returned(op, ret) ==
    last_call' = [op |-> op, ret |-> ret, text |-> <<>>, list |-> <<>>, shifts |-> 0,
                  evalFailed |-> FALSE]

\* A start* returned; evalFailed: evaluateTokens failed in it (observation)
ReturnedStart(op, ret, evalFailed) ==
    last_call' = [op |-> op, ret |-> ret, text |-> <<>>, list |-> <<>>, shifts |-> 0,
                  evalFailed |-> evalFailed]

\* getNextToken returns a text, getNextTokens a list of texts
ReturnedText(text, evalFailed) ==
    last_call' = [op |-> "getNextToken", ret |-> TRUE, text |-> text, list |-> <<>>,
                  shifts |-> 0, evalFailed |-> evalFailed]
\* shifts: how many times the call shifted the window (observation)
ReturnedList(list, shifts) ==
    last_call' = [op |-> "getNextTokens", ret |-> TRUE, text |-> <<>>, list |-> list,
                  shifts |-> shifts, evalFailed |-> FALSE]

\* The backend answers an action may draw: all well, or (within the budget) a
\* failed tokenization or the failure of llama_decode call k of n.
Answers(n) ==
    {[tok |-> TRUE, failAt |-> 0]} \cup
    (IF fault_budget > 0
     THEN {[tok |-> FALSE, failAt |-> 0]} \cup {[tok |-> TRUE, failAt |-> k] : k \in 1..n}
     ELSE {})

Charge(a) == fault_budget' = IF a.tok /\ a.failAt = 0 THEN fault_budget ELSE fault_budget - 1

----------------------------------------------------------------------------
(* Model load and unload *)

\* InferenceEngine::unloadModel(), after the wait for is_generating_
unloadModelLocked(e) ==
    [e EXCEPT !.model_loaded = FALSE, !.kv = {}, !.tokens_ = <<>>, !.n_past_ = 0,
              !.stop_requested_ = FALSE]

\* InferenceEngine::loadModel(path, config), the engine's side
LoadModelEngine ==
    /\ CallerIdle
    /\ IF model_loaded
       THEN \* under mutex_: unloadModel() sets the flag and waits
            /\ stop_requested_' = TRUE
            /\ caller_pc' = "reload"
            /\ hist' = [hist EXCEPT !.stopped = TRUE]
            /\ UNCHANGED <<model_loaded, is_generating_, tokens_, n_past_, kv,
                           generated_tokens, prompt_tokens, max_tokens, last_call,
                           fault_budget>>
       ELSE \E ok \in BOOLEAN :
            /\ SetEng(IF ok THEN [Eng EXCEPT !.model_loaded = TRUE, !.kv = {},
                                             !.max_tokens = ContextLength]
                      ELSE Eng)
            /\ UNCHANGED fault_budget
            /\ Returned("loadModel", ok)
            /\ UNCHANGED <<caller_pc, hist>>
    /\ UNCHANGED <<threadVars, pending, aborted>>

\* InferenceEngine::loadModel(path, config) called on the engine directly
LoadModel ==
    /\ LoadModelEngine
    /\ UNCHANGED memVars

\* loadModel -> unloadModel(): the wait ended; lock_guard on the mutex_ this
\* thread already holds.  The thread blocks, or the runtime ends the process.
ReloadRelock ==
    /\ caller_pc = "reload" /\ ~aborted
    /\ ~is_generating_
    /\ \/ caller_pc' = "deadlock" /\ UNCHANGED aborted
       \/ aborted' = TRUE /\ UNCHANGED caller_pc
    /\ UNCHANGED <<engineVars, threadVars, pending, fault_budget, last_call, hist>>
    /\ UNCHANGED memVars

\* InferenceEngine::unloadModel()
UnloadModel ==
    /\ CallerIdle
    /\ IF is_generating_
       THEN /\ stop_requested_' = TRUE
            /\ caller_pc' = "unload"
            /\ hist' = [hist EXCEPT !.stopped = TRUE]
            /\ UNCHANGED <<model_loaded, is_generating_, tokens_, n_past_, kv,
                           generated_tokens, prompt_tokens, max_tokens, last_call>>
       ELSE /\ SetEng(unloadModelLocked(Eng))
            /\ Returned("unloadModel", TRUE)
            /\ UNCHANGED <<caller_pc, hist>>
    /\ UNCHANGED <<threadVars, pending, aborted, fault_budget>>
    /\ UNCHANGED memVars

\* unloadModel(): the wait loop sees is_generating_ false
UnloadResume ==
    /\ caller_pc = "unload" /\ ~aborted
    /\ ~is_generating_
    /\ SetEng(unloadModelLocked(Eng))
    /\ caller_pc' = "idle"
    /\ Returned("unloadModel", TRUE)
    /\ UNCHANGED <<threadVars, pending, aborted, fault_budget, hist>>
    /\ UNCHANGED memVars

----------------------------------------------------------------------------
(* Synchronous session calls *)

\* A startInference that stored the configuration before looking at the
\* model (not the program's)
StartInference_ConfigFirst(len, mt) ==
    /\ CallerIdle
    /\ ~model_loaded
    /\ max_tokens' = mt
    /\ Returned("startInference", FALSE)
    /\ UNCHANGED <<model_loaded, is_generating_, stop_requested_, tokens_, n_past_, kv,
                   generated_tokens, prompt_tokens, threadVars, caller_pc, pending,
                   aborted, fault_budget, hist, memVars>>

\* startInference(prompt, config)
StartInference(len, mt) ==
    /\ CallerIdle
    /\ IF ~model_loaded
       THEN /\ Returned("startInference", FALSE)
            /\ UNCHANGED <<engineVars, fault_budget, hist>>
       ELSE \E a \in Answers(NumDecodes(len)) :
            LET r == startInference(Eng, len, mt, a.tok, a.failAt)
            IN  /\ SetEng(r.e)
                /\ Charge(a)
                /\ ReturnedStart("startInference", r.ret, r.evalFailed)
                /\ hist' = SessionHist("sync", NoEngine, FALSE)
    /\ UNCHANGED <<threadVars, caller_pc, pending, aborted>>
    /\ UNCHANGED memVars

StartInferenceIncremental(len, mt) ==
    /\ CallerIdle
    /\ IF ~model_loaded
       THEN /\ Returned("startInferenceIncremental", FALSE)
            /\ UNCHANGED <<engineVars, fault_budget, hist, caller_pc, aborted>>
       ELSE \E a \in Answers(NumDecodes(len)) :
            LET r == startInferenceIncremental(Eng, len, mt, a.tok, a.failAt)
            IN  /\ SetEng(r.e)
                /\ Charge(a)
                /\ hist' = SessionHist("sync", NoEngine, FALSE)
                /\ IF r.how = "deadlock"
                   THEN /\ UNCHANGED last_call
                        /\ \/ caller_pc' = "deadlock" /\ UNCHANGED aborted
                           \/ aborted' = TRUE /\ UNCHANGED caller_pc
                   ELSE /\ ReturnedStart("startInferenceIncremental", r.how = "ok",
                                         r.evalFailed)
                        /\ UNCHANGED <<caller_pc, aborted>>
    /\ UNCHANGED <<threadVars, pending>>
    /\ UNCHANGED memVars

GetNextToken ==
    /\ CallerIdle
    /\ \E sample \in SampleSet, failAt \in (IF fault_budget > 0 THEN {0, 1} ELSE {0}) :
       LET r == getNextToken(Eng, sample, failAt)
       IN  IF r.sampled /\ ~model_loaded
           THEN \* llama_sampler_sample on a freed sampler
                /\ aborted' = TRUE
                /\ UNCHANGED <<engineVars, fault_budget, last_call, hist>>
           ELSE /\ SetEng(r.e)
                /\ fault_budget' = IF failAt = 1 /\ r.decoded THEN fault_budget - 1 ELSE fault_budget
                /\ failAt = 1 => r.decoded
                /\ ReturnedText(r.text, r.decoded /\ ~r.e.is_generating_)
                /\ UNCHANGED hist
                /\ UNCHANGED aborted
    /\ UNCHANGED <<threadVars, caller_pc, pending>>
    /\ UNCHANGED memVars

\* A shiftContext without the early return (not the program's)
ShiftContext_AlwaysShifts(keep) ==
    /\ CallerIdle
    /\ IF ~model_loaded
       THEN /\ aborted' = TRUE
            /\ UNCHANGED <<engineVars, fault_budget, last_call>>
       ELSE \E rmOk \in {TRUE} \cup (IF fault_budget > 0 THEN {FALSE} ELSE {}) :
            /\ SetEng(shiftContextLocked(Eng, keep, rmOk))
            /\ fault_budget' = IF rmOk THEN fault_budget ELSE fault_budget - 1
            /\ Returned("shiftContext", TRUE)
            /\ UNCHANGED aborted
    /\ UNCHANGED <<threadVars, caller_pc, pending, hist>>
    /\ UNCHANGED memVars

\* shiftContext(keep_tokens), called by the host
ShiftContext(keep) ==
    /\ CallerIdle
    /\ IF n_past_ <= keep
       THEN /\ Returned("shiftContext", TRUE)
            /\ UNCHANGED <<engineVars, fault_budget, aborted>>
       ELSE IF ~model_loaded
       THEN \* llama_get_memory(nullptr)
            /\ aborted' = TRUE
            /\ UNCHANGED <<engineVars, fault_budget, last_call>>
       ELSE \E rmOk \in {TRUE} \cup (IF fault_budget > 0 THEN {FALSE} ELSE {}) :
            /\ SetEng(shiftContext(Eng, keep, rmOk))
            /\ fault_budget' = IF rmOk THEN fault_budget ELSE fault_budget - 1
            /\ Returned("shiftContext", TRUE)
            /\ UNCHANGED aborted
    /\ UNCHANGED <<threadVars, caller_pc, pending, hist>>
    /\ UNCHANGED memVars

ClearCache ==
    /\ CallerIdle
    /\ IF ~model_loaded
       THEN \* llama_get_memory(nullptr)
            /\ aborted' = TRUE
            /\ UNCHANGED <<engineVars, last_call>>
       ELSE /\ SetEng(clearCache(Eng))
            /\ Returned("clearCache", TRUE)
            /\ UNCHANGED aborted
    /\ UNCHANGED <<threadVars, caller_pc, pending, fault_budget, hist>>
    /\ UNCHANGED memVars

\* stopGeneration(): two atomic stores; callable from any thread at any time
StopGeneration ==
    /\ ~aborted
    /\ SetEng(stopGeneration(Eng))
    /\ hist' = [hist EXCEPT !.stopped = TRUE,
                            !.after_stop = IF @ = -1 /\ ProducerRuns THEN 0 ELSE @]
    /\ UNCHANGED <<threadVars, caller_pc, pending, aborted, fault_budget, last_call>>
    /\ UNCHANGED memVars

\* resetStats(): stats_ = GenerationStats(); no lock, no look at the session
ResetStats ==
    /\ ~aborted
    /\ generated_tokens' = 0
    /\ prompt_tokens' = 0
    /\ UNCHANGED <<model_loaded, is_generating_, stop_requested_, tokens_, n_past_, kv,
                   max_tokens, threadVars, caller_pc, pending, aborted, fault_budget,
                   last_call, hist>>
    /\ UNCHANGED memVars

\* generateWithCallback(prompt, config, callback): the startInference call.
\* cb: whether a callback was passed.
GenerateWithCallback(len, mt, cb) ==
    /\ CallerIdle
    /\ IF ~model_loaded
       THEN /\ Returned("generateWithCallback", FALSE)
            /\ callback_log' = [NoLog EXCEPT !.cb = cb]
            /\ UNCHANGED <<engineVars, fault_budget, hist, caller_pc>>
       ELSE \E a \in Answers(NumDecodes(len)) :
            LET r == startInference(Eng, len, mt, a.tok, a.failAt)
            IN  /\ SetEng(r.e)
                /\ Charge(a)
                /\ hist' = SessionHist("sync", NoEngine, FALSE)
                /\ callback_log' = [NoLog EXCEPT !.cb = cb, !.active = r.ret]
                /\ IF r.ret
                   THEN caller_pc' = "callback_loop" /\ UNCHANGED last_call
                   ELSE /\ ReturnedStart("generateWithCallback", FALSE, r.evalFailed)
                        /\ UNCHANGED caller_pc
    /\ UNCHANGED <<threadVars, pending, aborted, mem_available, mem_answers,
                   mem_recommended, model_memory_, host_load>>

\* A loop that went on after the callback answered false (not the program's)
GenerateWithCallbackStep_IgnoreAnswer ==
    /\ caller_pc = "callback_loop" /\ ~aborted
    /\ IF ~(is_generating_ /\ ~stop_requested_)
       THEN /\ caller_pc' = "callback_exit"
            /\ UNCHANGED <<engineVars, fault_budget, callback_log>>
       ELSE \E sample \in SampleSet, failAt \in (IF fault_budget > 0 THEN {0, 1} ELSE {0}),
               answer \in BOOLEAN :
            LET r == getNextToken(Eng, sample, failAt)
                call(final) == [text |-> r.text, final |-> final]
            IN  /\ failAt = 1 => r.decoded
                /\ fault_budget' = IF failAt = 1 THEN fault_budget - 1 ELSE fault_budget
                /\ SetEng(r.e)
                /\ IF r.text = <<>> /\ ~r.e.is_generating_
                   THEN /\ answer
                        /\ callback_log' =
                              [callback_log EXCEPT
                                  !.calls = IF callback_log.cb THEN Append(@, call(TRUE))
                                            ELSE @,
                                  !.ended = TRUE]
                        /\ caller_pc' = "callback_exit"
                   ELSE /\ callback_log.cb \/ answer
                        /\ callback_log' =
                              [callback_log EXCEPT
                                  !.calls = IF callback_log.cb THEN Append(@, call(FALSE))
                                            ELSE @,
                                  !.refused = @ \/ ~answer]
                        /\ UNCHANGED caller_pc
    /\ UNCHANGED <<threadVars, pending, aborted, last_call, hist, mem_available,
                   mem_answers, mem_recommended, model_memory_, host_load>>

\* generateWithCallback: one pass of the while loop, from its condition to the
\* next one or to the break.  answer: what callback(token, false) returns.
GenerateWithCallbackStep ==
    /\ caller_pc = "callback_loop" /\ ~aborted
    /\ IF ~(is_generating_ /\ ~stop_requested_)
       THEN /\ caller_pc' = "callback_exit"
            /\ UNCHANGED <<engineVars, fault_budget, callback_log>>
       ELSE \E sample \in SampleSet, failAt \in (IF fault_budget > 0 THEN {0, 1} ELSE {0}),
               answer \in BOOLEAN :
            LET r == getNextToken(Eng, sample, failAt)
                call(final) == [text |-> r.text, final |-> final]
            IN  /\ failAt = 1 => r.decoded
                /\ fault_budget' = IF failAt = 1 THEN fault_budget - 1 ELSE fault_budget
                /\ IF r.text = <<>> /\ ~r.e.is_generating_
                   THEN /\ answer
                        /\ SetEng(r.e)
                        /\ callback_log' =
                              [callback_log EXCEPT
                                  !.calls = IF callback_log.cb THEN Append(@, call(TRUE))
                                            ELSE @,
                                  !.ended = TRUE]
                        /\ caller_pc' = "callback_exit"
                   ELSE IF ~callback_log.cb
                   THEN /\ answer
                        /\ SetEng(r.e)
                        /\ UNCHANGED <<callback_log, caller_pc>>
                   ELSE IF answer
                   THEN /\ SetEng(r.e)
                        /\ callback_log' = [callback_log EXCEPT
                                               !.calls = Append(@, call(FALSE))]
                        /\ UNCHANGED caller_pc
                   ELSE /\ SetEng(stopGeneration(r.e))
                        /\ callback_log' = [callback_log EXCEPT
                                               !.calls = Append(@, call(FALSE)),
                                               !.refused = TRUE]
                        /\ caller_pc' = "callback_exit"
    /\ UNCHANGED <<threadVars, pending, aborted, last_call, hist, mem_available,
                   mem_answers, mem_recommended, model_memory_, host_load>>

\* generateWithCallback: after the loop
GenerateWithCallbackReturn ==
    /\ caller_pc = "callback_exit" /\ ~aborted
    /\ is_generating_' = FALSE
    /\ caller_pc' = "idle"
    /\ Returned("generateWithCallback", TRUE)
    /\ callback_log' = [callback_log EXCEPT !.active = FALSE]
    /\ UNCHANGED <<model_loaded, stop_requested_, tokens_, n_past_, kv, generated_tokens,
                   prompt_tokens, max_tokens, threadVars, pending, aborted, fault_budget,
                   hist, mem_available, mem_answers, mem_recommended, model_memory_,
                   host_load>>

MaxCount == 3           \* largest count passed to getNextTokens

GetNextTokens(count) ==
    /\ CallerIdle
    /\ \E samples \in [1..count -> SampleSet],
          failStep \in (IF fault_budget > 0 THEN 0..count ELSE {0}),
          refuseStep \in (IF fault_budget > 0 THEN 0..count ELSE {0}) :
       LET r == getNextTokens(Eng, count, samples, failStep, refuseStep)
       IN  /\ failStep = 0 \/ refuseStep = 0
           /\ model_loaded \/ ~(is_generating_ /\ ~stop_requested_)
           /\ SetEng(r.e)
           /\ fault_budget' = IF failStep = 0 /\ refuseStep = 0 THEN fault_budget ELSE fault_budget - 1
           /\ ReturnedList(r.result, r.shifts)
           /\ UNCHANGED hist
    /\ UNCHANGED <<threadVars, caller_pc, pending, aborted>>
    /\ UNCHANGED memVars

----------------------------------------------------------------------------
(* Threaded generation *)

ThreadsJoinable == gen_pc # "none" \/ proc_pc # "none"
ThreadsFinished == gen_pc \in {"none", "done"} /\ proc_pc \in {"none", "done"}

\* startInferenceThreaded(prompt, config) from "Reset state" on; stopThreads(),
\* if it was called, has returned.  joinable: whether the thread objects still
\* hold a thread that was not joined.
StartThreadedBody(len, mt, joinable) ==
    \E a \in Answers(NumDecodes(len)) :
    LET e0 == [Eng EXCEPT !.stop_requested_ = FALSE]
        r == incrementalSetup(e0, len, mt, a.tok, a.failAt)
        started == r.how = "ok" /\ ~joinable
        fresh == [NewHist(IF started THEN "threaded" ELSE "none",
                          IF started THEN e0 ELSE NoEngine, token_callback_ # "none")
                    EXCEPT !.lost = token_queue_ # <<>> /\ ~hist.stopped,
                           !.stopped = joinable /\ hist.stopped,
                           !.len = IF started THEN len ELSE 0,
                           !.mt = IF started THEN mt ELSE 0,
                           !.after_stop = IF started THEN -1 ELSE hist.after_stop]
    IN  /\ Charge(a)
        /\ generation_complete_' = FALSE
        /\ token_queue_' = <<>>
        /\ output_buffer_' = <<>>
        /\ hist' = fresh
        /\ UNCHANGED <<token_callback_, cb_running, pending>>
        /\ CASE r.how = "fail" ->
                  /\ SetEng(r.e)
                  /\ ReturnedStart("startInferenceThreaded", FALSE, r.evalFailed)
                  /\ caller_pc' = "idle"
                  /\ gen_pc' = IF joinable THEN gen_pc ELSE "none"
                  /\ proc_pc' = IF joinable THEN proc_pc ELSE "none"
                  /\ UNCHANGED <<aborted, gen_token, batch_buffer, batch_count>>
             [] r.how = "deadlock" ->
                  /\ SetEng(r.e)
                  /\ gen_pc' = IF joinable THEN gen_pc ELSE "none"
                  /\ proc_pc' = IF joinable THEN proc_pc ELSE "none"
                  /\ \/ caller_pc' = "deadlock" /\ UNCHANGED aborted
                     \/ aborted' = TRUE /\ caller_pc' = "idle"
                  /\ UNCHANGED <<last_call, gen_token, batch_buffer, batch_count>>
             [] r.how = "ok" /\ joinable ->
                  \* std::thread::operator= on a joinable thread: std::terminate
                  /\ SetEng([r.e EXCEPT !.is_generating_ = TRUE])
                  /\ aborted' = TRUE
                  /\ caller_pc' = "idle"
                  /\ UNCHANGED <<last_call, gen_pc, proc_pc, gen_token, batch_buffer,
                                 batch_count>>
             [] r.how = "ok" /\ ~joinable ->
                  /\ SetEng([r.e EXCEPT !.is_generating_ = TRUE])
                  /\ gen_pc' = "check"
                  /\ proc_pc' = "take"
                  /\ gen_token' = "none"
                  /\ batch_buffer' = <<>>
                  /\ batch_count' = 0
                  /\ Returned("startInferenceThreaded", TRUE)
                  /\ caller_pc' = "idle"
                  /\ UNCHANGED aborted

\* startInferenceThreaded(prompt, config)
StartInferenceThreaded(len, mt) ==
    /\ CallerIdle
    /\ IF ~model_loaded
       THEN /\ Returned("startInferenceThreaded", FALSE)
            /\ UNCHANGED <<engineVars, threadVars, caller_pc, pending, aborted, fault_budget, hist>>
       ELSE IF is_generating_ /\ ThreadsJoinable /\ ~ThreadsFinished
       THEN \* stopThreads(): set the flags, notify, block in join()
            /\ stop_requested_' = TRUE
            /\ generation_complete_' = TRUE
            /\ caller_pc' = "join"
            /\ pending' = [len |-> len, mt |-> mt]
            /\ hist' = [hist EXCEPT !.stopped = TRUE]
            /\ UNCHANGED <<model_loaded, is_generating_, tokens_, n_past_, kv,
                           generated_tokens, prompt_tokens, max_tokens, gen_pc, gen_token,
                           proc_pc, batch_buffer, batch_count, token_queue_,
                           output_buffer_, token_callback_, cb_running, aborted, fault_budget, last_call>>
       ELSE \* not generating: stopThreads() is skipped and nothing is joined;
            \* generating with finished or no threads: join() returns at once
            StartThreadedBody(len, mt, ~is_generating_ /\ ThreadsJoinable)
    /\ UNCHANGED memVars

\* stopThreads(): both join() calls returned; the start goes on
StartThreadedJoined ==
    /\ caller_pc = "join" /\ ~aborted
    /\ ThreadsFinished
    /\ StartThreadedBody(pending.len, pending.mt, FALSE)
    /\ UNCHANGED memVars

\* generationThreadFunc: loop condition, limits, sample and accept
GenCheck ==
    /\ gen_pc = "check" /\ ~aborted
    /\ IF stop_requested_ \/ ~is_generating_
          \/ n_past_ >= ContextLength - 1 \/ generated_tokens >= max_tokens
       THEN /\ gen_pc' = "finish"
            /\ UNCHANGED <<gen_token, aborted, hist>>
       ELSE IF ~model_loaded
       THEN /\ aborted' = TRUE
            /\ UNCHANGED <<gen_pc, gen_token, hist>>
       ELSE \E tok \in SampleSet :
            /\ gen_pc' = IF IsEog(tok) THEN "finish" ELSE "push"
            /\ gen_token' = IF IsEog(tok) THEN gen_token ELSE tok
            /\ hist' = [hist EXCEPT !.sampled = Append(@, tok)]
            /\ UNCHANGED aborted
    /\ UNCHANGED <<engineVars, generation_complete_, proc_pc, batch_buffer, batch_count,
                   token_queue_, output_buffer_, token_callback_, cb_running, caller_pc, pending,
                   fault_budget, last_call>>
    /\ UNCHANGED memVars

\* generationThreadFunc: token_queue_.push under queue_mutex_, notify_one
GenPush ==
    /\ gen_pc = "push" /\ ~aborted
    /\ token_queue_' = Append(token_queue_, gen_token)
    /\ hist' = [hist EXCEPT !.enq = Append(@, gen_token),
                            !.after_stop = IF @ >= 0 THEN @ + 1 ELSE @]
    /\ gen_pc' = "record"
    /\ UNCHANGED <<engineVars, generation_complete_, gen_token, proc_pc, batch_buffer,
                   batch_count, output_buffer_, token_callback_, cb_running, caller_pc, pending,
                   aborted, fault_budget, last_call>>
    /\ UNCHANGED memVars

\* generationThreadFunc: tokens_.push_back, no lock held
GenRecord ==
    /\ gen_pc = "record" /\ ~aborted
    /\ tokens_' = Append(tokens_, gen_token)
    /\ gen_pc' = "eval"
    /\ UNCHANGED <<model_loaded, is_generating_, stop_requested_, n_past_, kv,
                   generated_tokens, prompt_tokens, max_tokens, generation_complete_,
                   gen_token, proc_pc, batch_buffer, batch_count, token_queue_,
                   output_buffer_, token_callback_, cb_running, caller_pc, pending, aborted, fault_budget,
                   last_call, hist>>
    /\ UNCHANGED memVars

\* generationThreadFunc: evaluateTokens under mutex_
GenEval ==
    /\ gen_pc = "eval" /\ ~aborted
    /\ ~CallerHoldsMutex
    /\ IF ~model_loaded
       THEN /\ aborted' = TRUE
            /\ UNCHANGED <<kv, gen_pc, fault_budget, hist>>
       ELSE \E failAt \in (IF fault_budget > 0 THEN {0, 1} ELSE {0}) :
            LET ev == evaluateTokens(kv, <<gen_token>>, n_past_, 1, failAt)
            IN  /\ kv' = ev.kv
                /\ gen_pc' = IF ev.ok THEN "count" ELSE "finish"
                /\ fault_budget' = fault_budget - failAt
                /\ hist' = [hist EXCEPT !.failed = @ \/ ~ev.ok]
                /\ UNCHANGED aborted
    /\ UNCHANGED <<model_loaded, is_generating_, stop_requested_, tokens_, n_past_,
                   generated_tokens, prompt_tokens, max_tokens, generation_complete_,
                   gen_token, proc_pc, batch_buffer, batch_count, token_queue_,
                   output_buffer_, token_callback_, cb_running, caller_pc, pending, last_call>>
    /\ UNCHANGED memVars

\* A Producer that advanced n_past_ without counting the token (not the program's)
GenCount_NoStats ==
    /\ gen_pc = "count" /\ ~aborted
    /\ n_past_' = n_past_ + 1
    /\ gen_pc' = "check"
    /\ UNCHANGED <<model_loaded, is_generating_, stop_requested_, tokens_, kv,
                   generated_tokens, prompt_tokens, max_tokens, generation_complete_,
                   gen_token, proc_pc, batch_buffer, batch_count, token_queue_,
                   output_buffer_, token_callback_, cb_running, caller_pc, pending, aborted,
                   fault_budget, last_call, hist, memVars>>

\* generationThreadFunc: n_past_++, stats_.generated_tokens++, no lock held
GenCount ==
    /\ gen_pc = "count" /\ ~aborted
    /\ n_past_' = n_past_ + 1
    /\ generated_tokens' = generated_tokens + 1
    /\ gen_pc' = "check"
    /\ UNCHANGED <<model_loaded, is_generating_, stop_requested_, tokens_, kv,
                   prompt_tokens, max_tokens, generation_complete_, gen_token, proc_pc,
                   batch_buffer, batch_count, token_queue_, output_buffer_,
                   token_callback_, cb_running, caller_pc, pending, aborted, fault_budget, last_call, hist>>
    /\ UNCHANGED memVars

\* generationThreadFunc: after the loop
GenFinish ==
    /\ gen_pc = "finish" /\ ~aborted
    /\ generation_complete_' = TRUE
    /\ is_generating_' = FALSE
    /\ gen_pc' = "done"
    /\ UNCHANGED <<model_loaded, stop_requested_, tokens_, n_past_, kv, generated_tokens,
                   prompt_tokens, max_tokens, gen_token, proc_pc, batch_buffer,
                   batch_count, token_queue_, output_buffer_, token_callback_, cb_running, caller_pc,
                   pending, aborted, fault_budget, last_call, hist>>
    /\ UNCHANGED memVars

\* processorThreadFunc: the loop condition and the bounded wait; a token is
\* popped under queue_mutex_ if there is one, and detokenized
ProcTake ==
    /\ proc_pc = "take" /\ ~aborted
    /\ IF generation_complete_ /\ token_queue_ = <<>>
       THEN /\ proc_pc' = "final"
            /\ UNCHANGED <<token_queue_, batch_buffer, batch_count, aborted, hist>>
       ELSE IF token_queue_ = <<>>
       THEN \* the wait timed out or was woken without a token
            /\ proc_pc' = "flush"
            /\ UNCHANGED <<token_queue_, batch_buffer, batch_count, aborted, hist>>
       ELSE IF ~model_loaded
       THEN \* tokenToString on a freed model
            /\ aborted' = TRUE
            /\ UNCHANGED <<proc_pc, token_queue_, batch_buffer, batch_count, hist>>
       ELSE /\ token_queue_' = Tail(token_queue_)
            /\ batch_buffer' = batch_buffer \o tokenToString(Head(token_queue_))
            /\ batch_count' = batch_count + 1
            /\ hist' = [hist EXCEPT !.deq = Append(@, Head(token_queue_))]
            /\ proc_pc' = "flush"
            /\ UNCHANGED aborted
    /\ UNCHANGED <<engineVars, generation_complete_, gen_pc, gen_token, output_buffer_,
                   token_callback_, cb_running, caller_pc, pending, fault_budget, last_call>>
    /\ UNCHANGED memVars

\* One flush: output_buffer_ += batch under buffer_mutex_, then callback_mutex_
\* is taken and the registered callback, if any, is called with the batch
Flush ==
    /\ output_buffer_' = output_buffer_ \o batch_buffer
    /\ hist' = [hist EXCEPT
                  !.flushed = @ \o batch_buffer,
                  !.cb_out = IF token_callback_ # "none" THEN @ \o batch_buffer ELSE @]
    /\ cb_running' = token_callback_
    /\ batch_buffer' = <<>>

\* A Processor that flushed on the batch count alone (not the program's)
ProcFlush_CountOnly(late) ==
    /\ proc_pc = "flush" /\ ~aborted
    /\ IF batch_count >= BATCH_SIZE /\ batch_buffer # <<>>
       THEN Flush /\ batch_count' = 0
       ELSE UNCHANGED <<output_buffer_, batch_buffer, batch_count, hist, cb_running>>
    /\ proc_pc' = IF cb_running' # "none" THEN "callback" ELSE "take"
    /\ UNCHANGED <<engineVars, generation_complete_, gen_pc, gen_token, token_queue_,
                   token_callback_, caller_pc, pending, aborted, fault_budget, last_call,
                   memVars>>

\* processorThreadFunc: the flush decision.  late: more than 50 ms since last_flush
ProcFlush(late) ==
    /\ proc_pc = "flush" /\ ~aborted
    /\ LET should_flush == \/ batch_count >= BATCH_SIZE
                           \/ (late /\ batch_count > 0)
                           \/ (generation_complete_ /\ batch_count > 0)
       IN  IF should_flush /\ batch_buffer # <<>>
           THEN Flush /\ batch_count' = 0
           ELSE UNCHANGED <<output_buffer_, batch_buffer, batch_count, hist, cb_running>>
    /\ proc_pc' = IF cb_running' # "none" THEN "callback" ELSE "take"
    /\ UNCHANGED <<engineVars, generation_complete_, gen_pc, gen_token, token_queue_,
                   token_callback_, caller_pc, pending, aborted, fault_budget, last_call>>
    /\ UNCHANGED memVars

\* A Processor that left its loop without the final flush (not the program's)
ProcFinal_NoFlush ==
    /\ proc_pc = "final" /\ ~aborted
    /\ proc_pc' = "done"
    /\ UNCHANGED <<engineVars, generation_complete_, gen_pc, gen_token, batch_buffer,
                   batch_count, token_queue_, output_buffer_, token_callback_, cb_running, caller_pc,
                   pending, aborted, fault_budget, last_call, hist, memVars>>

\* processorThreadFunc: after the loop, flush any remaining tokens
ProcFinal ==
    /\ proc_pc = "final" /\ ~aborted
    /\ IF batch_buffer # <<>>
       THEN Flush
       ELSE UNCHANGED <<output_buffer_, batch_buffer, hist, cb_running>>
    /\ proc_pc' = IF cb_running' # "none" THEN "final_callback" ELSE "done"
    /\ UNCHANGED <<engineVars, generation_complete_, gen_pc, gen_token, batch_count,
                   token_queue_, token_callback_, caller_pc, pending, aborted, fault_budget,
                   last_call>>
    /\ UNCHANGED memVars

\* A Processor that went back to the queue without releasing callback_mutex_
\* (not the program's)
ProcCallbackReturn_KeepLock ==
    /\ proc_pc \in {"callback", "final_callback"} /\ ~aborted
    /\ proc_pc' = IF proc_pc = "callback" THEN "take" ELSE "done"
    /\ UNCHANGED <<engineVars, generation_complete_, gen_pc, gen_token, batch_buffer,
                   batch_count, token_queue_, output_buffer_, token_callback_, cb_running,
                   caller_pc, pending, aborted, fault_budget, last_call, hist, memVars>>

\* processorThreadFunc: the callback returned; callback_mutex_ is released
ProcCallbackReturn ==
    /\ proc_pc \in {"callback", "final_callback"} /\ ~aborted
    /\ cb_running' = "none"
    /\ proc_pc' = IF proc_pc = "callback" THEN "take" ELSE "done"
    /\ UNCHANGED <<engineVars, generation_complete_, gen_pc, gen_token, batch_buffer,
                   batch_count, token_queue_, output_buffer_, token_callback_, caller_pc,
                   pending, aborted, fault_budget, last_call, hist>>
    /\ UNCHANGED memVars

\* A popTokenFromQueue() that returned the buffer without clearing it (not the
\* program's)
PopTokenFromQueue_NoClear ==
    /\ ~aborted
    /\ hist' = [hist EXCEPT !.drained = @ \o output_buffer_]
    /\ UNCHANGED <<engineVars, threadVars, caller_pc, pending, aborted, fault_budget,
                   last_call, memVars>>

\* popTokenFromQueue(): return and clear output_buffer_ under buffer_mutex_
PopTokenFromQueue ==
    /\ ~aborted
    /\ output_buffer_' = <<>>
    /\ hist' = [hist EXCEPT !.drained = @ \o output_buffer_]
    /\ UNCHANGED <<engineVars, generation_complete_, gen_pc, gen_token, proc_pc,
                   batch_buffer, batch_count, token_queue_, token_callback_, cb_running, caller_pc,
                   pending, aborted, fault_budget, last_call>>
    /\ UNCHANGED memVars

Callbacks == {"cb", "cb2"}

\* setTokenCallback(callback): lock_guard on callback_mutex_, which the
\* Processor holds while it is in a callback
SetTokenCallback(callback) ==
    /\ ~aborted
    /\ cb_running = "none"
    /\ token_callback_' = callback
    /\ UNCHANGED <<engineVars, generation_complete_, gen_pc, gen_token, proc_pc,
                   batch_buffer, batch_count, token_queue_, output_buffer_, caller_pc,
                   pending, aborted, fault_budget, last_call, hist, cb_running>>
    /\ UNCHANGED memVars

\* A clearTokenCallback() that did not take callback_mutex_ (not the program's)
ClearTokenCallback_NoLock ==
    /\ ~aborted
    /\ token_callback_' = "none"
    /\ hist' = [hist EXCEPT !.cb_all = FALSE]
    /\ UNCHANGED <<engineVars, generation_complete_, gen_pc, gen_token, proc_pc,
                   batch_buffer, batch_count, token_queue_, output_buffer_, caller_pc,
                   pending, aborted, fault_budget, last_call, cb_running, memVars>>

\* clearTokenCallback(): lock_guard on callback_mutex_
ClearTokenCallback ==
    /\ ~aborted
    /\ cb_running = "none"
    /\ token_callback_' = "none"
    /\ hist' = [hist EXCEPT !.cb_all = FALSE]
    /\ UNCHANGED <<engineVars, generation_complete_, gen_pc, gen_token, proc_pc,
                   batch_buffer, batch_count, token_queue_, output_buffer_, caller_pc,
                   pending, aborted, fault_budget, last_call, cb_running>>
    /\ UNCHANGED memVars

----------------------------------------------------------------------------
(* MemoryManager (memory_manager.cpp).  Sizes are size_t values counted in   *)
(* MiB; size_t arithmetic wraps at SIZE_MOD MiB (a 32-bit size_t, 2^32 bytes) *)

SIZE_MOD == 4096                   \* 2^32 bytes in MiB
ALLOCATION_SAFETY_MARGIN == 100    \* 100 * 1024 * 1024
MIN_FREE_AFTER_ALLOC == 500        \* 500 * 1024 * 1024

MemSizes == {0, 100, 600, 700, 1024, 2048, 3995, 3996, 4095}
MemAvail == {0, 64, 100, 102, 103, 104, 108, 227, 228, 599, 600, 1024, 1200, 2048, 4095}

\* MemoryManager::canAllocate(bytes) at a snapshot where getAvailableMemory()
\* returns available
canAllocate(available, bytes) ==
    LET needed == (bytes + ALLOCATION_SAFETY_MARGIN) % SIZE_MOD
    IN  IF available < needed THEN FALSE
        ELSE IF (available + SIZE_MOD - bytes) % SIZE_MOD < MIN_FREE_AFTER_ALLOC
        THEN FALSE
        ELSE TRUE

NoRecommendation == [called |-> FALSE, available |-> 0, result |-> 0]

\* A call of canAllocate(bytes)
CanAllocate(bytes) ==
    /\ mem_answers' = [b \in DOMAIN mem_answers \cup {bytes} |->
                         IF b = bytes THEN canAllocate(mem_available, bytes)
                         ELSE mem_answers[b]]
    /\ UNCHANGED <<mem_available, mem_recommended, hostVars, engineVars, threadVars,
                   caller_pc, pending, aborted, fault_budget, last_call, hist>>

\* /proc/meminfo changes between two calls
MemSnapshot(available) ==
    /\ mem_available' = available
    /\ mem_answers' = [b \in {} |-> FALSE]
    /\ mem_recommended' = NoRecommendation
    /\ UNCHANGED <<hostVars, engineVars, threadVars, caller_pc, pending, aborted,
                   fault_budget, last_call, hist>>

KIB_PER_MIB == 1024                \* readMemInfo reports kB; sizes above are MiB
SAFETY_MARGIN_KIB == 102400        \* ALLOCATION_SAFETY_MARGIN, in KiB
KIB_PER_TOKEN == 4                 \* BYTES_PER_TOKEN = 4 * 1024
MIN_CONTEXT == 512                 \* std::max(max_tokens, 512)
MAX_CONTEXT == 32768               \* std::min(max_tokens, 32768)

\* The part of the available memory below a whole MiB, in KiB
KibRemainders == {0, 3, 4, 1023}

Max(a, b) == IF a > b THEN a ELSE b

\* getRecommendedContextSize(): the doubling loop from result
RECURSIVE DoubleUpTo(_, _)
DoubleUpTo(result, limit) ==
    IF result < limit /\ result < MAX_CONTEXT
    THEN DoubleUpTo(result * 2, limit)
    ELSE result

\* getRecommendedContextSize(): usable memory to clamped token count
ClampedTokens(available_kib) ==
    LET usable == IF available_kib > SAFETY_MARGIN_KIB
                  THEN available_kib - SAFETY_MARGIN_KIB ELSE 0
    IN  Min(Max(usable \div KIB_PER_TOKEN, MIN_CONTEXT), MAX_CONTEXT)

\* A getRecommendedContextSize() that kept the doubled value (not the program's)
getRecommendedContextSize_RoundUp(available_kib) ==
    DoubleUpTo(MIN_CONTEXT, ClampedTokens(available_kib))

\* MemoryManager::getRecommendedContextSize() where getAvailableMemory()
\* returns available_kib KiB
getRecommendedContextSize(available_kib) ==
    LET limit == ClampedTokens(available_kib)
        result == DoubleUpTo(MIN_CONTEXT, limit)
    IN  IF result > limit THEN result \div 2 ELSE result

\* A call of getRecommendedContextSize()
GetRecommendedContextSize ==
    /\ \E rem \in KibRemainders :
       LET available_kib == mem_available * KIB_PER_MIB + rem
       IN  mem_recommended' = [called |-> TRUE, available |-> available_kib,
                               result |-> getRecommendedContextSize(available_kib)]
    /\ UNCHANGED <<mem_available, mem_answers, hostVars, engineVars, threadVars,
                   caller_pc, pending, aborted, fault_budget, last_call, hist>>

ESTIMATED_MEM == 600               \* estimated_mem = 600 * 1024 * 1024
MODEL_MIB == 700                   \* getModelMemoryUsage() + getContextMemoryUsage() of the loaded model

NoHostLoad == [called |-> FALSE, admitted |-> FALSE, attempted |-> FALSE, ret |-> FALSE]

\* cortex::loadModel(modelPath): the memory gate, then the engine's loadModel,
\* then the registration of the model's and the context's memory
HostLoadModel ==
    /\ CallerIdle
    /\ IF ~canAllocate(mem_available, ESTIMATED_MEM)
       THEN /\ host_load' = [called |-> TRUE, admitted |-> FALSE, attempted |-> FALSE,
                             ret |-> FALSE]
            /\ UNCHANGED <<engineVars, threadVars, caller_pc, pending, aborted, last_call,
                           hist, model_memory_>>
       ELSE /\ LoadModelEngine
            /\ host_load' = [called |-> TRUE, admitted |-> TRUE, attempted |-> TRUE,
                             ret |-> caller_pc' = "idle" /\ last_call'.ret]
            /\ model_memory_' = IF caller_pc' = "idle" /\ last_call'.ret
                                THEN model_memory_ + MODEL_MIB ELSE model_memory_
    /\ UNCHANGED <<mem_available, mem_answers, mem_recommended, fault_budget,
                   callback_log>>

----------------------------------------------------------------------------
(* The engine after construction, and its behaviours *)

EngineInit ==
    /\ model_loaded = FALSE
    /\ is_generating_ = FALSE
    /\ stop_requested_ = FALSE
    /\ generation_complete_ = FALSE
    /\ tokens_ = <<>>
    /\ n_past_ = 0
    /\ kv = {}
    /\ generated_tokens = 0
    /\ prompt_tokens = 0
    /\ max_tokens = 2048
    /\ caller_pc = "idle"
    /\ pending = [len |-> 0, mt |-> 0]
    /\ aborted = FALSE
    /\ gen_pc = "none"
    /\ gen_token = "none"
    /\ proc_pc = "none"
    /\ batch_buffer = <<>>
    /\ batch_count = 0
    /\ token_queue_ = <<>>
    /\ output_buffer_ = <<>>
    /\ token_callback_ = "none"
    /\ cb_running = "none"
    /\ last_call = [op |-> "none", ret |-> TRUE, text |-> <<>>, list |-> <<>>,
                    shifts |-> 0, evalFailed |-> FALSE]
    /\ hist = NewHist("none", NoEngine, FALSE)

Init ==
    /\ EngineInit
    /\ fault_budget = MaxFaults
    /\ mem_available = 0
    /\ mem_answers = [b \in {} |-> FALSE]
    /\ mem_recommended = NoRecommendation
    /\ model_memory_ = 0
    /\ callback_log = NoLog
    /\ host_load = NoHostLoad

\* One caller drives the engine through the synchronous (pull) interface
Next ==
    \/ LoadModel
    \/ ReloadRelock
    \/ UnloadModel
    \/ UnloadResume
    \/ \E len \in PromptLens, mt \in MaxTokensSet : StartInference(len, mt)
    \/ \E len \in PromptLens, mt \in MaxTokensSet : StartInferenceIncremental(len, mt)
    \/ GetNextToken
    \/ \E count \in {MaxCount} : GetNextTokens(count)
    \/ \E keep \in {KEEP_TOKENS} : ShiftContext(keep)
    \/ ClearCache
    \/ StopGeneration

Spec == Init /\ [][Next]_vars

\* A caller drives threaded sessions; the Producer and the Processor run
NextThreaded ==
    \/ LoadModel
    \/ ReloadRelock
    \/ \E len \in PromptLens, mt \in MaxTokensSet : StartInferenceThreaded(len, mt)
    \/ StartThreadedJoined
    \/ StopGeneration
    \/ PopTokenFromQueue
    \/ \E callback \in Callbacks : SetTokenCallback(callback)
    \/ ClearTokenCallback
    \/ GenCheck
    \/ GenPush
    \/ GenRecord
    \/ GenEval
    \/ GenCount
    \/ GenFinish
    \/ ProcTake
    \/ \E late \in BOOLEAN : ProcFlush(late)
    \/ ProcFinal
    \/ ProcCallbackReturn

\* Threaded runs against a backend that does not fail on its own
InitThreaded ==
    /\ EngineInit
    /\ fault_budget = 0
    /\ mem_available = 0
    /\ mem_answers = [b \in {} |-> FALSE]
    /\ mem_recommended = NoRecommendation
    /\ model_memory_ = 0
    /\ callback_log = NoLog
    /\ host_load = NoHostLoad

SpecThreaded == InitThreaded /\ [][NextThreaded]_vars

\* The steps of generation_thread_ and of processor_thread_
ProducerStep == GenCheck \/ GenPush \/ GenRecord \/ GenEval \/ GenCount \/ GenFinish
ProcessorStep ==
    ProcTake \/ (\E late \in BOOLEAN : ProcFlush(late)) \/ ProcFinal \/ ProcCallbackReturn

\* Threaded runs in which the scheduler keeps running both threads: a thread
\* that can take a step eventually takes one (the Processor's wait_for times
\* out after 10 ms; backend calls and callbacks return)
SpecThreadedFair ==
    SpecThreaded /\ WF_vars(ProducerStep) /\ WF_vars(ProcessorStep)

\* Threaded sessions, and the model unloaded and loaded while they run
NextLifecycle ==
    \/ LoadModel
    \/ ReloadRelock
    \/ \E len \in PromptLens, mt \in MaxTokensSet : StartInferenceThreaded(len, mt)
    \/ StartThreadedJoined
    \/ GenCheck
    \/ GenPush
    \/ GenRecord
    \/ GenEval
    \/ GenCount
    \/ GenFinish
    \/ ProcTake
    \/ \E late \in BOOLEAN : ProcFlush(late)
    \/ ProcFinal
    \/ UnloadModel
    \/ UnloadResume
    \/ StopGeneration
    \* the synchronous starts, called on an engine without a model
    \/ ~model_loaded /\ \E len \in PromptLens, mt \in MaxTokensSet : StartInference(len, mt)
    \/ ~model_loaded /\ \E len \in PromptLens, mt \in MaxTokensSet :
                            StartInferenceIncremental(len, mt)

SpecLifecycle == InitThreaded /\ [][NextLifecycle]_vars

\* A caller that goes from a synchronous session to a threaded one and back,
\* against a backend that may fail
NextHandover ==
    \/ LoadModel
    \/ ReloadRelock
    \/ gen_pc \in {"none", "done"} /\
          \E len \in PromptLens, mt \in MaxTokensSet : StartInference(len, mt)
    \/ \E len \in PromptLens, mt \in MaxTokensSet : StartInferenceThreaded(len, mt)
    \/ StartThreadedJoined
    \/ ThreadsFinished /\ GetNextToken
    \/ GenCheck
    \/ GenPush
    \/ GenRecord
    \/ GenEval
    \/ GenCount
    \/ GenFinish
    \/ ProcTake
    \/ \E late \in BOOLEAN : ProcFlush(late)
    \/ ProcFinal

SpecHandover == Init /\ [][NextHandover]_vars

\* A caller of the synchronous interface that also reads and resets the stats
NextStats ==
    \/ LoadModel
    \/ ReloadRelock
    \/ \E len \in PromptLens, mt \in MaxTokensSet : StartInference(len, mt)
    \/ GetNextToken
    \/ StopGeneration
    \/ ResetStats

SpecStats == Init /\ [][NextStats]_vars

\* A host that generates with generateWithCallback while another of its
\* threads may call stopGeneration
NextCallback ==
    \/ LoadModel
    \/ \E len \in PromptLens, mt \in MaxTokensSet, cb \in BOOLEAN :
          GenerateWithCallback(len, mt, cb)
    \/ GenerateWithCallbackStep
    \/ GenerateWithCallbackReturn
    \/ StopGeneration

SpecCallback == Init /\ [][NextCallback]_vars

\* A caller that pulls with getNextToken() while a threaded session runs
NextMixed ==
    \/ LoadModel
    \/ \E len \in PromptLens, mt \in MaxTokensSet : StartInferenceThreaded(len, mt)
    \/ StartThreadedJoined
    \/ GetNextToken
    \/ GenCheck
    \/ GenPush
    \/ GenRecord
    \/ GenEval
    \/ GenCount
    \/ GenFinish
    \/ ProcTake
    \/ \E late \in BOOLEAN : ProcFlush(late)
    \/ ProcFinal

SpecMixed == InitThreaded /\ [][NextMixed]_vars

\* A host that runs one threaded session, stops it, and starts the next
\* session with startInference
NextCancel ==
    \/ LoadModel
    \/ ~ThreadsJoinable /\
          \E len \in PromptLens, mt \in MaxTokensSet : StartInferenceThreaded(len, mt)
    \/ StopGeneration
    \/ hist.after_stop \in {0, 1} /\
          \E len \in PromptLens, mt \in MaxTokensSet : StartInference(len, mt)
    \/ GenCheck
    \/ GenPush
    \/ GenRecord
    \/ GenEval
    \/ GenCount
    \/ GenFinish
    \/ ProcTake
    \/ \E late \in BOOLEAN : ProcFlush(late)
    \/ ProcFinal

SpecCancel == InitThreaded /\ [][NextCancel]_vars

\* A host that loads, runs synchronous sessions and unloads; the thread inside
\* unloadModel keeps running its wait loop
NextUnload ==
    \/ LoadModel
    \/ ReloadRelock
    \/ UnloadModel
    \/ UnloadResume
    \/ \E len \in PromptLens, mt \in MaxTokensSet : StartInference(len, mt)
    \/ GetNextToken
    \/ StopGeneration

SpecUnloadFair == Init /\ [][NextUnload]_vars /\ WF_vars(UnloadResume)

\* The memory gate alone
InitMem ==
    /\ EngineInit
    /\ fault_budget = 0
    /\ mem_available \in MemAvail
    /\ mem_answers = [b \in {} |-> FALSE]
    /\ mem_recommended = NoRecommendation
    /\ model_memory_ = 0
    /\ callback_log = NoLog
    /\ host_load = NoHostLoad

NextMem ==
    \/ \E bytes \in MemSizes : CanAllocate(bytes)
    \/ \E available \in MemAvail : MemSnapshot(available)
    \/ GetRecommendedContextSize
    \/ HostLoadModel
    \/ ReloadRelock

SpecMem == InitMem /\ [][NextMem]_vars

----------------------------------------------------------------------------
(* Properties of the window (history, committed counter, backend cells) *)

\* The cells the backend should hold for the first n entries of a history
CellsOf(toks, n) == {[pos |-> i - 1, tok |-> toks[i]] : i \in 1..n}

\* C1: after every public session operation, succeeded or failed,
\* n_past_ <= tokens_.size() <= context_length.
C1_WindowInvariant ==
    CallerIdle => (n_past_ <= Len(tokens_) /\ Len(tokens_) <= ContextLength)

\* C2: whenever the session is generating, the backend holds exactly n_past_
\* cells and they are the first n_past_ entries of the history.
C2_BackendHoldsCommitted ==
    (CallerIdle /\ model_loaded /\ is_generating_) =>
        (n_past_ <= Len(tokens_) /\ kv = CellsOf(tokens_, n_past_))

\* What shiftContext(keep) with n_past_ > keep has to establish
ShiftPost(keep) ==
    LET drop == n_past_ - keep
    IN  /\ Len(tokens_') = keep
        /\ n_past_' = keep
        /\ tokens_' = LastK(tokens_, keep)
        /\ kv' = {[pos |-> c.pos - drop, tok |-> c.tok] : c \in {d \in kv : d.pos >= drop}}
        /\ (is_generating_' /\ ~stop_requested_' /\ generated_tokens' < max_tokens') =>
              LET r == getNextToken(Eng', "a", 0)
              IN  r.decoded /\ r.pos = keep /\ r.e.is_generating_

\* C3: a shiftContext(keep) called with n_past_ > keep leaves keep entries of
\* history, the last keep of the previous ones, n_past_ = keep, the backend
\* without positions [0, drop) and the rest renumbered by -drop, and the next
\* getNextToken evaluates at position keep and succeeds.
C3_ShiftCorrect ==
    [][\A keep \in {KEEP_TOKENS} :
         (ShiftContext(keep) /\ model_loaded /\ n_past_ > keep) => ShiftPost(keep)]_vars

\* C4: when the backend refuses the removal, shiftContext leaves the history
\* and the committed counter as they were.
C4_RefusedShiftLeavesWindow ==
    [][\A keep \in {KEEP_TOKENS} :
         (ShiftContext(keep) /\ fault_budget' # fault_budget) =>
             (tokens_' = tokens_ /\ n_past_' = n_past_)]_vars

\* C14: a batch pull getNextTokens(count) on a session whose backend has not
\* failed shifts the window before every step that starts with
\* n_past_ >= context_length - margin, so a pull started there makes at least
\* one shift, no evaluateTokens fails and the pull does not end because the
\* window is exhausted.
C14_BatchPullShiftsProactively ==
    (CallerIdle /\ model_loaded /\ is_generating_ /\ ~stop_requested_
       /\ fault_budget = MaxFaults) =>
          \A samples \in [1..MaxCount -> SampleSet] :
             LET r == getNextTokens(Eng, MaxCount, samples, 0, 0)
             IN  /\ r.why \notin {"evalfail", "exhausted"}
                 /\ (n_past_ >= ContextLength - BATCH_MARGIN) =>
                        (r.shifts >= 1 /\ r.e.n_past_ <= KEEP_TOKENS + Len(r.result))

\* A pull that started at n_past_ = context_length - margin shifted once and
\* returned a token
W_C14 ==
    /\ last_call.op = "getNextTokens" /\ last_call.shifts = 1
    /\ last_call.list = <<<<"a">>>>
    /\ n_past_ = KEEP_TOKENS + 1 /\ fault_budget = MaxFaults
    /\ kv = CellsOf(tokens_, n_past_)

\* What an incremental start whose increment does not fit has to do: one
\* shiftContext(keep), then the evaluation of the increment at the new n_past_
ShiftThenEvaluate(len) ==
    LET sh == shiftContext(Eng, KEEP_TOKENS, TRUE)
        ev == evaluateTokens(sh.kv, Tokenize(len), sh.n_past_, len, 0)
    IN  /\ caller_pc' = "idle" /\ ~aborted'
        /\ last_call'.op = "startInferenceIncremental" /\ last_call'.ret = ev.ok
        /\ kv' = ev.kv
        /\ ev.ok => /\ n_past_' = sh.n_past_ + len
                    /\ tokens_' = sh.tokens_ \o Tokenize(len)
                    /\ is_generating_'

\* C15: a startInferenceIncremental whose increment is longer than
\* context_length - n_past_ - margin makes exactly one shift and then evaluates
\* the increment (the backend not failing on its own).
C15_StartShiftsOnceThenEvaluates ==
    [][\A len \in PromptLens, mt \in MaxTokensSet :
         (/\ StartInferenceIncremental(len, mt) /\ model_loaded
          /\ len > ContextLength - n_past_ - START_MARGIN
          /\ fault_budget' = fault_budget) => ShiftThenEvaluate(len)]_vars

----------------------------------------------------------------------------
(* Properties of threaded sessions *)

\* A synchronous session pulled to its end: getNextToken() is called while
\* isGenerating(), the sampler answering script[i] at its i-th call.
\* short: the sampler was asked for more than the script holds.
RECURSIVE SyncRun(_, _, _, _)
SyncRun(e, script, i, text) ==
    IF ~e.is_generating_ THEN [text |-> text, used |-> i - 1, short |-> FALSE]
    ELSE LET asks == getNextToken(e, "eos", 0).sampled
         IN  IF asks /\ i > Len(script)
             THEN [text |-> text, used |-> i - 1, short |-> TRUE]
             ELSE LET r == getNextToken(e, IF asks THEN script[i] ELSE "eos", 0)
                  IN  SyncRun(r.e, script, IF asks THEN i + 1 ELSE i, text \o r.text)

\* The threaded session has run to its end: both threads left their loops
SessionEnded ==
    hist.mode = "threaded" /\ gen_pc = "done" /\ proc_pc = "done" /\ ~aborted

IsPrefix(s, t) == Len(s) <= Len(t) /\ SubSeq(t, 1, Len(s)) = s

\* C6: in a threaded session, at the step where is_generating_ becomes false
\* the Processor has dequeued as many tokens as the Producer enqueued.
C6_QueueDrainedWhenGeneratingEnds ==
    [][(hist.mode = "threaded" /\ is_generating_ /\ ~is_generating_') =>
          Len(hist'.deq) = Len(hist'.enq)]_vars

\* C7: in a threaded session nobody cancelled, the tokens the Processor
\* dequeues are the tokens the Producer enqueued, once each and in order;
\* none is discarded from token_queue_, and all are dequeued when the session
\* has ended.
C7_NoTokenLost ==
    /\ IsPrefix(hist.deq, hist.enq)
    /\ hist.deq \o token_queue_ = hist.enq \/ hist.stopped
    /\ ~hist.lost
    /\ (SessionEnded /\ ~hist.stopped) => hist.deq = hist.enq

\* C8: the results of successive popTokenFromQueue() calls, followed by what
\* output_buffer_ still holds, are the batches the Processor flushed, in order.
C8_DrainedEqualsFlushed ==
    hist.drained \o output_buffer_ = hist.flushed

W_C8 ==
    /\ hist.mode = "threaded"
    /\ hist.drained = <<"a">> /\ output_buffer_ = <<"a">>
    /\ hist.flushed = <<"a", "a">>

\* A caller's step that frees the model, context and sampler, or that runs the
\* body of a start: new sampler, new configuration, evaluation, history and
\* n_past_ written
CallerMutatesBackend ==
    \/ (UnloadModel \/ UnloadResume) /\ model_loaded /\ ~model_loaded'
    \/ \E len \in PromptLens, mt \in MaxTokensSet :
          StartInferenceThreaded(len, mt) /\ model_loaded /\ caller_pc' # "join"
    \/ StartThreadedJoined

\* C16: unloadModel and every start* touch the model, the context, the
\* sampler, the history and n_past_ only when neither the Producer nor the
\* Processor thread is running.
C16_NoMutationWhileThreadsRun ==
    [][CallerMutatesBackend => ThreadsFinished]_vars

\* A start* call returned to the caller in this step
StartReturns ==
    /\ \/ \E len \in PromptLens, mt \in MaxTokensSet :
             \/ StartInference(len, mt)
             \/ StartInferenceIncremental(len, mt)
             \/ StartInferenceThreaded(len, mt)
       \/ StartThreadedJoined
    /\ model_loaded /\ caller_pc' = "idle" /\ ~aborted'

\* C17: when evaluateTokens fails in a start*, in getNextToken or in the
\* Producer, the call returns false / an empty text, is_generating_ is false,
\* and nothing is sampled or evaluated until the next start*.
C17_EvaluateFailureTerminates ==
    /\ [][(StartReturns /\ last_call'.evalFailed) =>
            (~last_call'.ret /\ ~is_generating_')]_vars
    /\ [][(GetNextToken /\ ~aborted' /\ last_call'.evalFailed) =>
            (last_call'.text = <<>> /\ ~is_generating_')]_vars
    /\ [][(GetNextToken /\ ~is_generating_) => UNCHANGED <<kv, tokens_, n_past_>>]_vars
    /\ []((hist.mode = "threaded" /\ hist.failed) => gen_pc \in {"finish", "done"})
    /\ []((hist.mode = "threaded" /\ hist.failed /\ gen_pc = "done") => ~is_generating_)

\* What the host can read about a session: isGenerating(), getCachedTokenCount(),
\* getStats(), and the text delivered through output_buffer_ and the callback.
\* The engine has no error slot and no outcome value.
HostView ==
    [isGenerating |-> is_generating_, cachedTokens |-> n_past_,
     generated |-> generated_tokens, prompt |-> prompt_tokens, text |-> hist.flushed]

\* The host's view after a threaded session on a 2-token prompt in which the
\* sampler gave one token and then end-of-sequence
DoneView ==
    [isGenerating |-> FALSE, cachedTokens |-> 3, generated |-> 1, prompt |-> 2,
     text |-> <<"a">>]

\* A session that completed normally and shows DoneView
DoneSessionShowsDoneView ==
    /\ SessionEnded /\ ~hist.failed /\ ~hist.stopped
    /\ hist.sampled = <<"a", "eos">> /\ HostView = DoneView

\* C18: a threaded session that ended because evaluateTokens failed never
\* shows the host what a normally completed session shows: the failure is
\* recorded where the host can read it.
C18_ErrorOutcomeObservable ==
    (SessionEnded /\ hist.failed /\ ~hist.stopped) => HostView # DoneView

\* C19: startInference, startInferenceIncremental and startInferenceThreaded
\* called with no model loaded return false at once and change nothing:
\* history, n_past_, configuration, stats, flags, token_queue_,
\* output_buffer_ and the threads are as before.
C19_StartWithoutModelChangesNothing ==
    [][\A len \in PromptLens, mt \in MaxTokensSet :
         (/\ \/ StartInference(len, mt)
             \/ StartInferenceIncremental(len, mt)
             \/ StartInferenceThreaded(len, mt)
          /\ ~model_loaded) =>
            /\ ~last_call'.ret
            /\ last_call'.op \in {"startInference", "startInferenceIncremental",
                                  "startInferenceThreaded"}
            /\ UNCHANGED <<engineVars, threadVars, caller_pc, aborted>>]_vars

\* startInferenceThreaded refused on an unloaded engine whose Processor still
\* runs and whose queue still holds a token
W_C19 ==
    /\ ~model_loaded /\ ~aborted
    /\ last_call.op = "startInferenceThreaded" /\ ~last_call.ret
    /\ token_queue_ # <<>> /\ proc_pc = "take" /\ stop_requested_

C9_StopIdempotentNonBlocking ==
    /\ [](~aborted => ENABLED StopGeneration)
    /\ [][StopGeneration =>
            /\ stop_requested_' /\ ~is_generating_'
            /\ UNCHANGED <<model_loaded, tokens_, n_past_, kv, generated_tokens,
                           prompt_tokens, max_tokens, threadVars, caller_pc, aborted>>
            /\ stopGeneration(Eng') = Eng']_vars

W_C9 ==
    /\ hist.mode = "threaded" /\ hist.stopped /\ caller_pc = "idle"
    /\ stop_requested_ /\ ~is_generating_ /\ gen_pc = "eval"

\* A synchronous session pulled to its end with a sampler that never gives
\* end-of-sequence: the engine at the end and the number of tokens generated
RECURSIVE PullToEnd(_, _)
PullToEnd(e, steps) ==
    IF ~e.is_generating_ THEN [e |-> e, steps |-> steps]
    ELSE LET r == getNextToken(e, "a", 0)
         IN  PullToEnd(r.e, IF r.decoded THEN steps + 1 ELSE steps)

NoEos(script) == \A i \in 1..Len(script) : ~IsEog(script[i])

----------------------------------------------------------------------------
(* Properties of the memory gate *)

\* C10: at one snapshot, for request sizes X <= Y over the whole range of
\* size_t, canAllocate(X) false implies canAllocate(Y) false.
C10_GateMonotone ==
    \A x \in DOMAIN mem_answers, y \in DOMAIN mem_answers :
        (x <= y /\ ~mem_answers[x]) => ~mem_answers[y]

\* C11: canAllocate(bytes) is true exactly when available - bytes >= 500 MiB and
\* available >= bytes + 100 MiB, for every request size a size_t can hold.
C11_GateIffBothChecks ==
    \A b \in DOMAIN mem_answers :
        mem_answers[b] <=> (/\ mem_available - b >= MIN_FREE_AFTER_ALLOC
                            /\ mem_available >= b + ALLOCATION_SAFETY_MARGIN)

IsPowerOfTwo(n) == \E k \in 0..15 : n = 2 ^ k

\* C12: for every available-memory value, 0 included, the recommended context
\* size is a power of two in [512, 32768], is not above
\* clamp(max(0, available - 100 MiB) / 4096, 512, 32768), and is the largest
\* such power of two.
C12_RecommendedIsPowerOfTwoBelowCap ==
    mem_recommended.called =>
        LET a == mem_recommended.available
            usable == Max(0, a - SAFETY_MARGIN_KIB)
            cap == Min(Max(usable \div KIB_PER_TOKEN, MIN_CONTEXT), MAX_CONTEXT)
            r == mem_recommended.result
        IN  /\ IsPowerOfTwo(r)
            /\ r >= MIN_CONTEXT /\ r <= MAX_CONTEXT
            /\ r <= cap
            /\ 2 * r > cap

\* The host reports 104 MiB + 4 KiB: 1025 tokens, rounded down to 1024
W_C12 ==
    /\ mem_recommended.called
    /\ mem_recommended.available = 104 * KIB_PER_MIB + 4
    /\ mem_recommended.result = 1024

----------------------------------------------------------------------------
(* Properties of the host surface (platform_channel.cpp) *)

\* What the host can read after cortex::loadModel(): the boolean it returned,
\* isModelLoaded() and getMemoryUsage().  The channel has no error value.
LoadView ==
    [ret |-> host_load.ret, loaded |-> model_loaded, usage |-> model_memory_]

\* The host's view after a load that the memory gate rejected on a fresh engine
RejectedView == [ret |-> FALSE, loaded |-> FALSE, usage |-> 0]

\* A load the memory gate rejected shows RejectedView
RejectionShowsRejectedView ==
    /\ host_load.called /\ ~host_load.admitted /\ CallerIdle
    /\ LoadView = RejectedView

\* C21: cortex::loadModel asks canAllocate first; when it rejects, the engine's
\* loadModel is not called, nothing is allocated and no usage is registered;
\* and a load that failed in the backend after the gate admitted it never
\* shows the host what a rejected load shows.
C21_PolicyRejectionDistinct ==
    /\ [][(HostLoadModel /\ ~canAllocate(mem_available, ESTIMATED_MEM)) =>
            (/\ ~host_load'.attempted /\ ~host_load'.ret
             /\ UNCHANGED <<engineVars, model_memory_, last_call>>)]_vars
    /\ []((host_load.called /\ host_load.admitted /\ ~host_load.ret /\ CallerIdle) =>
            LoadView # RejectedView)

\* C22: the Processor calls the push callback only under callback_mutex_, and
\* setTokenCallback / clearTokenCallback replace it only under the same lock:
\* the handler is never replaced while it runs, a flush calls the handler
\* registered at that moment, and after clearTokenCallback() returned the
\* handler that was registered is not called.
C22_CallbackNeverReplacedWhileInvoked ==
    /\ [](cb_running # "none" => cb_running = token_callback_)
    /\ [][token_callback_' # token_callback_ =>
            (cb_running = "none" /\ cb_running' = "none")]_vars
    /\ [][(cb_running' # cb_running /\ cb_running' # "none") =>
            (cb_running' = token_callback_ /\ token_callback_' = token_callback_)]_vars

\* The callback was called, then cleared while the Processor still held text
\* to flush, and the Processor went on without calling it
W_C22 ==
    /\ hist.mode = "threaded" /\ ~hist.cb_all /\ hist.cb_out = <<"a">>
    /\ token_callback_ = "none" /\ cb_running = "none"
    /\ hist.flushed = <<"a", "a">> /\ proc_pc = "done"

\* A start* call
AnyStart ==
    \/ \E len \in PromptLens, mt \in MaxTokensSet :
          \/ StartInference(len, mt)
          \/ StartInferenceIncremental(len, mt)
          \/ StartInferenceThreaded(len, mt)
    \/ StartThreadedJoined

\* C23: stats_.prompt_tokens and stats_.generated_tokens never decrease except
\* in a start*; no other operation of the public surface resets them.
C23_StatsResetOnlyByStart ==
    [][(generated_tokens' < generated_tokens \/ prompt_tokens' < prompt_tokens) =>
          AnyStart]_vars

\* A step that writes the configuration, the history, n_past_ or the stats
SessionWrite ==
    <<max_tokens, tokens_, n_past_, generated_tokens, prompt_tokens>>' #
        <<max_tokens, tokens_, n_past_, generated_tokens, prompt_tokens>>

\* The caller's steps; each makes its writes inside a lock_guard on mutex_
CallerLockedStep ==
    \/ LoadModel \/ HostLoadModel \/ UnloadModel \/ UnloadResume
    \/ AnyStart
    \/ GetNextToken
    \/ \E count \in {MaxCount} : GetNextTokens(count)
    \/ \E keep \in {KEEP_TOKENS} : ShiftContext(keep)
    \/ ClearCache

\* The Producer is between two statements that write without a lock:
\* tokens_.push_back before the evaluation, n_past_++ and generated_tokens++ after
ProducerAtUnlockedWrite == gen_pc \in {"record", "count"}

\* C24: every write of the configuration, the history, n_past_ and the stats
\* is made by a step that holds mutex_, and the caller never writes them while
\* the Producer is at a write of its own.
C24_WritesUnderSessionLock ==
    /\ [][SessionWrite => (CallerLockedStep \/ GenEval)]_vars
    /\ [][(SessionWrite /\ CallerLockedStep) => ~ProducerAtUnlockedWrite]_vars

\* A getNextToken() call that reaches the sampler
CallerSamples == GetNextToken /\ getNextToken(Eng, "a", 0).sampled

\* A startInferenceThreaded call returned true in this step
ThreadedStartSucceeds ==
    /\ \/ \E len \in PromptLens, mt \in MaxTokensSet : StartInferenceThreaded(len, mt)
       \/ StartThreadedJoined
    /\ model_loaded /\ caller_pc' = "idle" /\ ~aborted'
    /\ last_call'.op = "startInferenceThreaded" /\ last_call'.ret

\* C25: a successful startInferenceThreaded starts one Producer and one
\* Processor after the previous ones have ended, and getNextToken() never
\* samples or evaluates while the Producer is in its loop.
C25_OneGenerationPerContext ==
    /\ [][ThreadedStartSucceeds =>
            (ThreadsFinished /\ gen_pc' = "check" /\ proc_pc' = "take")]_vars
    /\ [][CallerSamples => ~ProducerRuns]_vars

----------------------------------------------------------------------------
(* Locks: mutex_, queue_mutex_, buffer_mutex_, callback_mutex_ *)

Threads == {"caller", "producer", "processor"}

\* The locks a thread holds between two of its steps.  The caller keeps mutex_
\* inside loadModel -> unloadModel; the Processor keeps callback_mutex_ while
\* the callback runs; every other lock_guard scope is inside one step.
Holds(t) ==
    CASE t = "caller" -> IF CallerHoldsMutex THEN {"mutex_"} ELSE {}
      [] t = "producer" -> {}
      [] t = "processor" -> IF cb_running # "none" THEN {"callback_mutex_"} ELSE {}

\* The lock a thread's next step starts by taking
WaitsFor(t) ==
    CASE t = "caller" ->
            IF caller_pc = "deadlock" \/ (caller_pc = "reload" /\ ~is_generating_)
            THEN {"mutex_"} ELSE {}
      [] t = "producer" ->
            IF gen_pc = "push" THEN {"queue_mutex_"}
            ELSE IF gen_pc = "eval" THEN {"mutex_"} ELSE {}
      [] t = "processor" ->
            IF proc_pc = "take" THEN {"queue_mutex_"}
            ELSE IF proc_pc = "flush" THEN {"buffer_mutex_"} ELSE {}

\* The thread is in queue_cv_.wait_for
WaitsOnQueueCv(t) == t = "processor" /\ proc_pc = "take"

C27_ThreadedSessionEnds ==
    /\ (~ThreadsFinished) ~> (ThreadsFinished \/ aborted)
    /\ [][(gen_pc # "done" /\ gen_pc' = "done") => generation_complete_']_vars
    /\ [][(proc_pc # "done" /\ proc_pc' = "done" /\ cb_running' = "none") =>
            (token_queue_' = <<>> /\ batch_buffer' = <<>>)]_vars
    /\ [][(proc_pc = "final_callback" /\ proc_pc' = "done") =>
            (token_queue_' = <<>> /\ batch_buffer' = <<>>)]_vars

\* A step in which the Processor flushed
Flushed == Len(hist'.flushed) > Len(hist.flushed)

\* What one flush of the batch does: the batch goes to output_buffer_ and the
\* same text to the registered callback, if there is one
FlushEffect ==
    /\ output_buffer_' = output_buffer_ \o batch_buffer
    /\ hist'.flushed = hist.flushed \o batch_buffer
    /\ hist'.cb_out = IF token_callback_ # "none" THEN hist.cb_out \o batch_buffer
                      ELSE hist.cb_out
    /\ cb_running' = token_callback_
    /\ batch_buffer' = <<>>

\* C28: in its loop the Processor flushes exactly when the batch is not empty
\* and it holds BATCH_SIZE tokens, or more than 50 ms passed since the last
\* flush, or generation is complete; after the loop it flushes the remainder
\* once; each flush appends the batch to output_buffer_ and passes the same
\* text to the callback, so both streams carry the same batches in order.
C28_FlushRule ==
    /\ [][\A late \in BOOLEAN : ProcFlush(late) =>
            (Flushed <=> (/\ batch_buffer # <<>>
                          /\ \/ batch_count >= BATCH_SIZE
                             \/ late
                             \/ generation_complete_))]_vars
    /\ [][ProcFinal => (/\ Flushed <=> batch_buffer # <<>>
                        /\ batch_buffer' = <<>>
                        /\ proc_pc' \in {"final_callback", "done"})]_vars
    /\ [][Flushed => (FlushEffect /\ ProcessorStep)]_vars
    /\ [](hist.cb_all => hist.cb_out = hist.flushed)

\* A session whose first token had an empty piece: the batch of two tokens
\* was flushed as the text of the second, to the buffer and to the callback
W_C28 ==
    /\ SessionEnded /\ hist.cb_all /\ hist.deq = <<"b", "a">>
    /\ hist.flushed = <<"a">> /\ hist.cb_out = <<"a">> /\ output_buffer_ = <<"a">>

\* C29: after stopGeneration() the Producer finishes at most the step it is
\* in: it pushes at most one more token, its next look at the loop condition
\* ends the loop, and it then sets generation_complete_.
C29_CancellationBounded ==
    /\ [](hist.after_stop <= 1)
    /\ [][(GenCheck /\ hist.after_stop >= 0) => gen_pc' = "finish"]_vars
    /\ [][GenFinish => generation_complete_']_vars

\* C30: in generateWithCallback, once the callback has answered false no
\* sample or evaluate step runs and the callback is not invoked again, and the
\* call returns with is_generating_ false; when getNextToken reports the end
\* of generation, the callback is invoked with is_final = true exactly once,
\* and that invocation is the last one.
Finals == {i \in 1..Len(callback_log.calls) : callback_log.calls[i].final}

C30_CallbackPull ==
    /\ [][(callback_log.active /\ callback_log.refused) =>
             /\ UNCHANGED <<tokens_, n_past_, kv, generated_tokens>>
             /\ callback_log'.calls = callback_log.calls
             /\ ~is_generating_']_vars
    /\ []((callback_log.refused /\ last_call.op = "generateWithCallback"
              /\ caller_pc = "idle") => ~is_generating_)
    /\ []((callback_log.ended /\ callback_log.cb) =>
             Finals = {Len(callback_log.calls)})
    /\ [](Finals \subseteq {Len(callback_log.calls)})
    /\ [](callback_log.refused => Finals = {})

\* Two tokens were delivered, the callback refused the second, and the call
\* has returned
W_C30 ==
    /\ callback_log.refused /\ ~callback_log.active
    /\ Len(callback_log.calls) = 2
    /\ last_call.op = "generateWithCallback" /\ last_call.ret

----------------------------------------------------------------------------
(* Properties of the single steps *)

\* The session is generating and a limit has been reached
AtLimit ==
    /\ is_generating_ /\ ~stop_requested_
    /\ n_past_ >= ContextLength - 1 \/ generated_tokens >= max_tokens

NotGenerating == ~is_generating_ \/ stop_requested_

\* getNextToken returns the empty text, is_generating_ is false, and nothing
\* else of the engine has changed
RefusedStep ==
    /\ last_call'.op = "getNextToken" /\ last_call'.text = <<>>
    /\ ~last_call'.evalFailed
    /\ ~is_generating_'
    /\ UNCHANGED <<model_loaded, stop_requested_, tokens_, n_past_, kv, generated_tokens,
                   prompt_tokens, max_tokens>>

\* C31: getNextToken() called while generating with n_past_ at
\* context_length - 1 or generated_tokens at max_tokens returns the empty text
\* and sets is_generating_ false, calls neither the sampler nor llama_decode,
\* and leaves tokens_, n_past_ and generated_tokens as they were; called when
\* not generating or after a stop request it does the same.
C31_RefusalChangesNothing ==
    /\ []((AtLimit \/ NotGenerating) =>
             \A sample \in SampleSet, failAt \in {0, 1} :
                LET r == getNextToken(Eng, sample, failAt)
                IN  /\ r.text = <<>> /\ ~r.sampled /\ ~r.decoded
                    /\ r.e = [Eng EXCEPT !.is_generating_ = FALSE])
    /\ [][((AtLimit \/ NotGenerating) /\ GetNextToken) => RefusedStep]_vars

\* A getNextToken call found generated_tokens at max_tokens and returned empty
W_C31 ==
    /\ last_call.op = "getNextToken" /\ last_call.text = <<>> /\ ~last_call.evalFailed
    /\ model_loaded /\ ~is_generating_ /\ ~stop_requested_
    /\ generated_tokens > 0 /\ generated_tokens >= max_tokens
    /\ n_past_ < ContextLength - 1

\* getNextToken would pass its three tests
CanStep ==
    /\ is_generating_ /\ ~stop_requested_
    /\ n_past_ < ContextLength - 1 /\ generated_tokens < max_tokens

\* C32: a getNextToken() step that samples a token that is not end-of-sequence
\* and whose llama_decode succeeds appends exactly that token to tokens_ and
\* adds one to n_past_ and to generated_tokens; a step that samples
\* end-of-sequence appends nothing, changes neither counter, returns the empty
\* text and ends the session; getNextTokens(count) returns k <= count texts,
\* k being the growth of generated_tokens.
C32_StepEffects ==
    /\ [](CanStep =>
             \A sample \in SampleSet, failAt \in {0, 1} :
                LET r == getNextToken(Eng, sample, failAt)
                    ev == evaluateTokens(kv, <<sample>>, n_past_, 1, failAt)
                IN  /\ IsEog(sample) =>
                          /\ r.text = <<>> /\ r.sampled /\ ~r.decoded
                          /\ r.e = [Eng EXCEPT !.is_generating_ = FALSE]
                    /\ (~IsEog(sample) /\ ev.ok) =>
                          /\ r.text = tokenToString(sample)
                          /\ r.e = [Eng EXCEPT !.tokens_ = Append(@, sample),
                                               !.kv = ev.kv,
                                               !.n_past_ = @ + 1,
                                               !.generated_tokens = @ + 1])
    /\ [][(CanStep /\ ~aborted' /\ is_generating_' /\ GetNextToken) =>
             /\ Len(tokens_') = Len(tokens_) + 1
             /\ SubSeq(tokens_', 1, Len(tokens_)) = tokens_
             /\ ~IsEog(tokens_'[Len(tokens_')])
             /\ last_call'.text = tokenToString(tokens_'[Len(tokens_')])
             /\ n_past_' = n_past_ + 1
             /\ generated_tokens' = generated_tokens + 1]_vars
    /\ [][(CanStep /\ ~aborted' /\ ~is_generating_'
              /\ ~last_call'.evalFailed /\ GetNextToken) =>
             /\ last_call'.text = <<>>
             /\ UNCHANGED <<tokens_, n_past_, generated_tokens, kv>>]_vars
    /\ [](\A count \in 1..MaxCount :
             \A samples \in [1..count -> SampleSet], failStep \in 0..count,
                refuseStep \in 0..count :
                (failStep = 0 \/ refuseStep = 0) =>
                   LET r == getNextTokens(Eng, count, samples, failStep, refuseStep)
                   IN  /\ Len(r.result) <= count
                       /\ Len(r.result) = r.e.generated_tokens - generated_tokens)

\* getNextTokens returned two texts in a session that had generated none before
W_C32 ==
    /\ last_call.op = "getNextTokens" /\ Len(last_call.list) = 2
    /\ generated_tokens = 2 /\ Len(tokens_) = prompt_tokens + 2
    /\ n_past_ = prompt_tokens + 2

\* The backend holds exactly the tokens toks at positions 0 .. Len(toks) - 1
BackendHolds(cells, toks) ==
    cells = {[pos |-> i - 1, tok |-> toks[i]] : i \in 1..Len(toks)}

\* C33: a startInference that returns true, from whatever state, leaves
\* tokens_ equal to the tokenization of the prompt, n_past_ equal to its
\* length, generated_tokens 0, stop_requested_ false and is_generating_ true,
\* and the backend holding exactly the prompt tokens at positions 0..len-1.
C33_FreshStart ==
    [][(last_call'.op = "startInference" /\ last_call'.ret
           /\ \E len \in PromptLens, mt \in MaxTokensSet : StartInference(len, mt)) =>
          /\ tokens_' = Tokenize(prompt_tokens')
          /\ n_past_' = Len(tokens_')
          /\ generated_tokens' = 0
          /\ ~stop_requested_' /\ is_generating_'
          /\ BackendHolds(kv', tokens_')]_vars

\* startInference succeeded after an earlier call had failed in the backend
W_C33 ==
    /\ last_call.op = "startInference" /\ last_call.ret
    /\ fault_budget < MaxFaults
    /\ is_generating_ /\ tokens_ = Tokenize(2) /\ BackendHolds(kv, tokens_)

\* The cells llama_decode adds for the tokens toks from position start on
CellsFrom(toks, start) ==
    {[pos |-> start + i - 1, tok |-> toks[i]] : i \in 1..Len(toks)}

\* C34: a startInferenceIncremental that returns true keeps tokens_ and
\* appends exactly the increment's tokens, evaluates only the increment, from
\* position n_past_ on, adds the increment's length to n_past_ and sets
\* generated_tokens to 0; when the increment's evaluation fails, tokens_ and
\* n_past_ are as before the call.
C34_IncrementalStart ==
    [][(caller_pc' = "idle" /\ ~aborted'
           /\ last_call'.op = "startInferenceIncremental"
           /\ \E len \in PromptLens, mt \in MaxTokensSet :
                 StartInferenceIncremental(len, mt)) =>
          /\ last_call'.ret =>
                /\ tokens_' = tokens_ \o Tokenize(prompt_tokens')
                /\ n_past_' = n_past_ + prompt_tokens'
                /\ generated_tokens' = 0
                /\ kv' = kv \cup CellsFrom(Tokenize(prompt_tokens'), n_past_)
                /\ is_generating_' /\ ~stop_requested_'
          /\ (~last_call'.ret /\ last_call'.evalFailed) =>
                /\ tokens_' = tokens_
                /\ n_past_' = n_past_
                /\ ~is_generating_']_vars

\* An increment was appended to a session that had a prompt and one generated
\* token
W_C34 ==
    /\ last_call.op = "startInferenceIncremental" /\ last_call.ret
    /\ tokens_ = <<"bos", "p", "a", "bos", "p">>
    /\ n_past_ = 5 /\ generated_tokens = 0 /\ is_generating_

\* C35: shiftContext(keep_tokens) with n_past_ <= keep_tokens returns at once:
\* no backend call is made, and tokens_, n_past_ and the backend's cells are
\* as before.
C35_ShiftNoOp ==
    /\ [](\A keep \in 0..ContextLength, rmOk \in BOOLEAN :
             n_past_ <= keep => shiftContext(Eng, keep, rmOk) = Eng)
    /\ [][\A keep \in {KEEP_TOKENS} :
             (ShiftContext(keep) /\ n_past_ <= keep) =>
                /\ UNCHANGED <<engineVars, fault_budget, aborted>>
                /\ last_call'.op = "shiftContext"]_vars

\* shiftContext was called in a session whose n_past_ is below keep_tokens
W_C35 ==
    /\ last_call.op = "shiftContext"
    /\ is_generating_ /\ n_past_ = 2 /\ n_past_ < KEEP_TOKENS
    /\ BackendHolds(kv, tokens_)

----------------------------------------------------------------------------
(* Properties of the calls that lock mutex_ *)

\* The calling thread locks mutex_ while it holds it: unloadModel called by
\* loadModel, or shiftContext called by startInferenceIncremental when
\* n_past_ exceeds keep_tokens
RelockAttempt ==
    \/ ReloadRelock
    \/ \E len \in PromptLens, mt \in MaxTokensSet :
          /\ StartInferenceIncremental(len, mt)
          /\ model_loaded
          /\ len > ContextLength - n_past_ - START_MARGIN
          /\ n_past_ > KEEP_TOKENS
          /\ fault_budget' = fault_budget

\* C36: no call locks mutex_ on a thread that already holds it, and so
\* loadModel on an engine that has a model, and startInferenceIncremental with
\* a shift to make, return.
C36_NoRelock ==
    /\ [][~RelockAttempt]_vars
    /\ [](caller_pc # "deadlock")

\* startInferenceThreaded runs from "Reset state" on without having called
\* stopThreads, while generation_thread_ or processor_thread_ still holds a
\* thread that was not joined
StartOverJoinableThreads ==
    /\ model_loaded /\ ~is_generating_ /\ ThreadsJoinable
    /\ \E len \in PromptLens, mt \in MaxTokensSet : StartInferenceThreaded(len, mt)

\* C37: when startInferenceThreaded is called after a threaded session that
\* ended on its own or was stopped with stopGeneration(), the threads of that
\* session are joined before the new ones are assigned: no thread is assigned
\* over a joinable thread object, and the old Producer does not run on into the
\* new session.
C37_RestartJoinsThreads ==
    /\ [][~StartOverJoinableThreads]_vars
    /\ [][((\E len \in PromptLens, mt \in MaxTokensSet : StartInferenceThreaded(len, mt))
              /\ caller_pc' = "idle" /\ is_generating_') =>
             ~ProducerRuns]_vars

\* unloadModel has returned and left the engine empty
Unloaded ==
    /\ caller_pc = "idle" /\ last_call.op = "unloadModel"
    /\ ~model_loaded /\ tokens_ = <<>> /\ n_past_ = 0 /\ ~stop_requested_

\* C38: unloadModel() returns, with no model loaded, tokens_ empty, n_past_ 0
\* and stop_requested_ false, also when it is called while a synchronous
\* session is generating and no other thread calls getNextToken or
\* stopGeneration.
C38_UnloadReturns == (caller_pc = "unload") ~> Unloaded

----------------------------------------------------------------------------
(* Properties of failed starts and of the counters of a threaded session *)

\* A start* call returns in this step, from an engine with or without a model
StartCallReturns ==
    /\ \/ \E len \in PromptLens, mt \in MaxTokensSet :
             \/ StartInference(len, mt)
             \/ StartInferenceIncremental(len, mt)
             \/ StartInferenceThreaded(len, mt)
       \/ StartThreadedJoined
    /\ caller_pc' = "idle" /\ ~aborted'
    /\ last_call'.op \in {"startInference", "startInferenceIncremental",
                          "startInferenceThreaded"}

\* C39: when a start* call returns false, is_generating_ is false, whatever
\* the state it was called in; so also when startInferenceThreaded fails in
\* tokenizePrompt or evaluateTokens after a synchronous session was left
\* generating.
C39_FailedStartNotGenerating ==
    [][(StartCallReturns /\ ~last_call'.ret) => ~is_generating_']_vars

\* C40: when a threaded session has ended, the number of tokens the Producer
\* enqueued is stats_.generated_tokens, and it is the growth of n_past_ since
\* the prompt was evaluated, also when the session ended on a failed
\* evaluateTokens or on stopGeneration().
C40_EnqueuedEqualsCounted ==
    SessionEnded =>
        /\ Len(hist.enq) = generated_tokens
        /\ generated_tokens = n_past_ - (hist.before.n_past_ + hist.len)

====
